---- MODULE Spec2Model ----
(***************************************************************************)
(* HTTP caching engine (Varnish behind the test harness of this            *)
(* repository) as a state machine.                                         *)
(*                                                                         *)
(* The repository starts a cache in front of a test backend, sends client  *)
(* requests and asserts what the client sees and how often the backend     *)
(* handler ran.  The model has the same three parties:                     *)
(*   - the client: one record per request sent with mkReq/req,             *)
(*   - the backend handler of the test (status, Cache-Control, sleep,      *)
(*     backendRequests++),                                                 *)
(*   - the cache: object store, lookup, waiting on an in-flight fetch,     *)
(*     background fetch in grace, vcl_backend_response.                    *)
(* docker holds the containers and the calls of StartVarnishInDocker; the  *)
(* tests start sending requests when their call has returned.              *)
(* Time is counted in whole seconds (one tick = 1s); a request the tests   *)
(* send 1.1s after an insertion is a request at age 1.                     *)
(***************************************************************************)
EXTENDS Integers, Sequences, FiniteSets, TLC

VARIABLES now, profile, store, reqs, inflight, backendRequests, docker

vars == <<now, profile, store, reqs, inflight, backendRequests, docker>>

(* ------------------------------ bounds --------------------------------- *)

\* number of client requests one behaviour sends
MaxReq == 3

\* ticks explored after the last instant an object inserted at 0 can expire
Slack == 1

(* ------------------------- program constants --------------------------- *)

StatusOK == 200

StatusInternalServerError == 500

StatusNotModified == 304

StatusServiceUnavailable == 503

\* sleepTime of the hit-for-miss test and the sleep of the
\* stale-while-revalidate handler, rounded up to a whole tick
sleepTime == 1

\* lifetime of a hit-for-miss marker ("store that for 120s by default")
HitMissTtl == 120

Keys == {"/", "/health"}

\* the Origin values the client of TestVaryOnOrigin sends; "" stands for a
\* request without Origin
OriginA == "https://a"

OriginB == "https://b"

Origins == {"", OriginA, OriginB}

\* the cache key of the variant of URL k that was recorded with Origin v
CacheKey(k, v) == IF v = "" THEN k ELSE k \o " Origin: " \o v

\* the cache keys of the variants of URL k
Variants(k) == {CacheKey(k, v) : v \in Origins}

CacheKeys == UNION {Variants(k) : k \in Keys}

(* --------------------------- configurations ---------------------------- *)

\* a directive that takes a duration and came without one
\* ("stale-while-revalidate" instead of "stale-while-revalidate=<seconds>")
NoDuration == -2

\* Cache-Control of a backend response, parsed: -1 stands for "directive
\* absent", NoDuration for a directive without its duration.  expires is
\* the Expires header of the response as seconds after its Date, -1 for a
\* response without Expires
NoCC == [noStore |-> FALSE, maxAge |-> -1, swr |-> -1,
         sMaxAge |-> -1, private |-> FALSE, noCache |-> FALSE,
         expires |-> -1]

CCMaxAge1 == [NoCC EXCEPT !.maxAge = 1]

CCMaxAge1Swr10 == [NoCC EXCEPT !.maxAge = 1, !.swr = 10]

CCNoStore == [NoCC EXCEPT !.noStore = TRUE]

\* "s-maxage=1, stale-while-revalidate"
CCSMaxAge1SwrNoDuration == [NoCC EXCEPT !.sMaxAge = 1, !.swr = NoDuration]

\* "max-age=1, stale-while-revalidate=0"
CCMaxAge1Swr0 == [NoCC EXCEPT !.maxAge = 1, !.swr = 0]

\* "stale-while-revalidate=1"
CCSwr1 == [NoCC EXCEPT !.swr = 1]

\* "private, stale-while-revalidate=1"
CCPrivateSwr1 == [NoCC EXCEPT !.private = TRUE, !.swr = 1]

\* "no-cache"
CCNoCache == [NoCC EXCEPT !.noCache = TRUE]

\* "max-age=100"
CCMaxAge100 == [NoCC EXCEPT !.maxAge = 100]

\* "max-age=1, stale-while-revalidate=1"
CCMaxAge1Swr1 == [NoCC EXCEPT !.maxAge = 1, !.swr = 1]

\* "max-age=300, stale-while-revalidate=30"
CCMaxAge300Swr30 == [NoCC EXCEPT !.maxAge = 300, !.swr = 30]

\* One record per test set-up: VarnishConfig (DefaultTtl, DefaultGrace,
\* DefaultKeep, Vcl), the backend handler (echo of X-Status-Code or a fixed
\* status, the Cache-Control it sets, which requests it sleeps for, the
\* validator it sets), whether the test closes the backend after the health
\* check, and the kind of request its client sends.
TestNoCacheControl ==
    [name |-> "TestNoCacheControl", DefaultTtl |-> 1, DefaultGrace |-> 0,
     Vcl |-> "builtin", echoStatus |-> TRUE, cc |-> NoCC, sleep |-> "none",
     DefaultKeep |-> 0, fixedStatus |-> 200, validator |-> "none",
     closed |-> FALSE, client |-> "get"]

TestNoCachingOf500ErrorInGracePeriodAfter200Request ==
    [name |-> "TestNoCachingOf500ErrorInGracePeriodAfter200Request",
     DefaultTtl |-> 1, DefaultGrace |-> 5,
     Vcl |-> "builtin", echoStatus |-> TRUE, cc |-> NoCC, sleep |-> "none",
     DefaultKeep |-> 0, fixedStatus |-> 200, validator |-> "none",
     closed |-> FALSE, client |-> "get"]

TestAbandon5xxResponseInGracePeriodWhen2xxCached ==
    [name |-> "TestAbandon5xxResponseInGracePeriodWhen2xxCached",
     DefaultTtl |-> 1, DefaultGrace |-> 5,
     Vcl |-> "abandon5xxBgfetch", echoStatus |-> TRUE, cc |-> NoCC, sleep |-> "none",
     DefaultKeep |-> 0, fixedStatus |-> 200, validator |-> "none",
     closed |-> FALSE, client |-> "get"]

TestCacheControlMaxAge1 ==
    [name |-> "TestCacheControlMaxAge1", DefaultTtl |-> 0, DefaultGrace |-> 0,
     Vcl |-> "builtin", echoStatus |-> FALSE, cc |-> CCMaxAge1, sleep |-> "none",
     DefaultKeep |-> 0, fixedStatus |-> 200, validator |-> "none",
     closed |-> FALSE, client |-> "get"]

TestStaleWhileRevalidate ==
    [name |-> "TestStaleWhileRevalidate", DefaultTtl |-> 0, DefaultGrace |-> 0,
     Vcl |-> "builtin", echoStatus |-> FALSE, cc |-> CCMaxAge1Swr10, sleep |-> "x2",
     DefaultKeep |-> 0, fixedStatus |-> 200, validator |-> "none",
     closed |-> FALSE, client |-> "get"]

TestHitForMissAndNoRequestCoalescingWhenNoStore ==
    [name |-> "TestHitForMissAndNoRequestCoalescingWhenNoStore",
     DefaultTtl |-> 0, DefaultGrace |-> 0,
     Vcl |-> "builtin", echoStatus |-> FALSE, cc |-> CCNoStore, sleep |-> "all",
     DefaultKeep |-> 0, fixedStatus |-> 200, validator |-> "none",
     closed |-> FALSE, client |-> "get"]

TestNoCachingOf500ErrorOnFirstRequest ==
    [name |-> "TestNoCachingOf500ErrorOnFirstRequest",
     DefaultTtl |-> 1, DefaultGrace |-> 0,
     Vcl |-> "builtin", echoStatus |-> TRUE, cc |-> NoCC, sleep |-> "none",
     DefaultKeep |-> 0, fixedStatus |-> 200, validator |-> "none",
     closed |-> FALSE, client |-> "get"]

TestTtlOn5xxBackendResponseIsNotAutomaticallyHitForMiss ==
    [name |-> "TestTtlOn5xxBackendResponseIsNotAutomaticallyHitForMiss",
     DefaultTtl |-> 0, DefaultGrace |-> 0,
     Vcl |-> "ttlGrace5xx", echoStatus |-> FALSE, cc |-> NoCC, sleep |-> "none",
     DefaultKeep |-> 0, fixedStatus |-> 500, validator |-> "none",
     closed |-> FALSE, client |-> "get"]

TestExplicitMarkingAsUncacheableOn5xxBackendResponseIsHitForMiss ==
    [name |-> "TestExplicitMarkingAsUncacheableOn5xxBackendResponseIsHitForMiss",
     DefaultTtl |-> 0, DefaultGrace |-> 0,
     Vcl |-> "uncacheable5xx", echoStatus |-> FALSE, cc |-> NoCC, sleep |-> "none",
     DefaultKeep |-> 0, fixedStatus |-> 500, validator |-> "none",
     closed |-> FALSE, client |-> "get"]

TestConditionalRequestWhenRevalidatingWithEtag ==
    [name |-> "TestConditionalRequestWhenRevalidatingWithEtag",
     DefaultTtl |-> 1, DefaultGrace |-> 0,
     Vcl |-> "builtin", echoStatus |-> FALSE, cc |-> NoCC, sleep |-> "none",
     DefaultKeep |-> 5, fixedStatus |-> 200, validator |-> "etag",
     closed |-> FALSE, client |-> "get"]

TestConditionalRequestWhenRevalidatingWithLastModified ==
    [name |-> "TestConditionalRequestWhenRevalidatingWithLastModified",
     DefaultTtl |-> 1, DefaultGrace |-> 0,
     Vcl |-> "builtin", echoStatus |-> FALSE, cc |-> NoCC, sleep |-> "none",
     DefaultKeep |-> 5, fixedStatus |-> 200, validator |-> "lastModified",
     closed |-> FALSE, client |-> "get"]

TestBackendRespondsWith304WhenUnconditionalRequest ==
    [name |-> "TestBackendRespondsWith304WhenUnconditionalRequest",
     DefaultTtl |-> 1, DefaultGrace |-> 0,
     Vcl |-> "builtin", echoStatus |-> FALSE, cc |-> NoCC, sleep |-> "none",
     DefaultKeep |-> 0, fixedStatus |-> 304, validator |-> "none",
     closed |-> FALSE, client |-> "get"]

Test503FromBackendIsNotVclBackendError ==
    [name |-> "Test503FromBackendIsNotVclBackendError",
     DefaultTtl |-> 0, DefaultGrace |-> 0,
     Vcl |-> "backendErrorBody", echoStatus |-> FALSE, cc |-> NoCC, sleep |-> "none",
     DefaultKeep |-> 0, fixedStatus |-> 503, validator |-> "none",
     closed |-> FALSE, client |-> "get"]

TestNoConnectionToBackendIsVclBackendError ==
    [name |-> "TestNoConnectionToBackendIsVclBackendError",
     DefaultTtl |-> 0, DefaultGrace |-> 0,
     Vcl |-> "backendErrorBody", echoStatus |-> FALSE, cc |-> NoCC, sleep |-> "none",
     DefaultKeep |-> 0, fixedStatus |-> 200, validator |-> "none",
     closed |-> TRUE, client |-> "get"]

TestNoCachingOfPost ==
    [name |-> "TestNoCachingOfPost",
     DefaultTtl |-> 1, DefaultGrace |-> 0,
     Vcl |-> "builtin", echoStatus |-> FALSE, cc |-> NoCC, sleep |-> "none",
     DefaultKeep |-> 0, fixedStatus |-> 200, validator |-> "none",
     closed |-> FALSE, client |-> "post"]

TestNoCachingWhenRequestHasAuthorizationHeader ==
    [name |-> "TestNoCachingWhenRequestHasAuthorizationHeader",
     DefaultTtl |-> 1, DefaultGrace |-> 0,
     Vcl |-> "builtin", echoStatus |-> FALSE, cc |-> NoCC, sleep |-> "none",
     DefaultKeep |-> 0, fixedStatus |-> 200, validator |-> "none",
     closed |-> FALSE, client |-> "authorization"]

TestNoCachingWhenRequestHasCookieHeader ==
    [name |-> "TestNoCachingWhenRequestHasCookieHeader",
     DefaultTtl |-> 1, DefaultGrace |-> 0,
     Vcl |-> "builtin", echoStatus |-> FALSE, cc |-> NoCC, sleep |-> "none",
     DefaultKeep |-> 0, fixedStatus |-> 200, validator |-> "none",
     closed |-> FALSE, client |-> "cookie"]

TestReturnPassInVclRecvBypassesTheCache ==
    [name |-> "TestReturnPassInVclRecvBypassesTheCache",
     DefaultTtl |-> 1, DefaultGrace |-> 10,
     Vcl |-> "passIfXRequest", echoStatus |-> FALSE, cc |-> NoCC, sleep |-> "none",
     DefaultKeep |-> 0, fixedStatus |-> 200, validator |-> "none",
     closed |-> FALSE, client |-> "get"]

TestSettingReqGraceInVclRecvIsUpperCapForBerespGraceInVclBackendResponse ==
    [name |-> "TestSettingReqGraceInVclRecvIsUpperCapForBerespGraceInVclBackendResponse",
     DefaultTtl |-> 0, DefaultGrace |-> 0,
     Vcl |-> "reqGrace1sTtl100msGrace10s", echoStatus |-> FALSE, cc |-> NoCC, sleep |-> "none",
     DefaultKeep |-> 0, fixedStatus |-> 200, validator |-> "none",
     closed |-> FALSE, client |-> "get"]

TestSettingReqGraceInVclRecvIsUpperCapForSwrOfBackendResponse ==
    [name |-> "TestSettingReqGraceInVclRecvIsUpperCapForSwrOfBackendResponse",
     DefaultTtl |-> 0, DefaultGrace |-> 0,
     Vcl |-> "reqGrace1s", echoStatus |-> FALSE, cc |-> CCMaxAge1Swr10, sleep |-> "none",
     DefaultKeep |-> 0, fixedStatus |-> 200, validator |-> "none",
     closed |-> FALSE, client |-> "get"]

TestSettingReqTtlInVclRecvIsNoUpperCapForBerespTtlInVclBackendResponse ==
    [name |-> "TestSettingReqTtlInVclRecvIsNoUpperCapForBerespTtlInVclBackendResponse",
     DefaultTtl |-> 0, DefaultGrace |-> 0,
     Vcl |-> "reqTtl0sTtl10s", echoStatus |-> FALSE, cc |-> NoCC, sleep |-> "none",
     DefaultKeep |-> 0, fixedStatus |-> 200, validator |-> "none",
     closed |-> FALSE, client |-> "get"]

TestStaleWhileRevalidateWithoutDurationWhenZeroDefaultGrace ==
    [name |-> "TestStaleWhileRevalidateWithoutDurationWhenZeroDefaultGrace",
     DefaultTtl |-> 0, DefaultGrace |-> 0,
     Vcl |-> "builtin", echoStatus |-> FALSE, cc |-> CCSMaxAge1SwrNoDuration,
     sleep |-> "allAfterCount",
     DefaultKeep |-> 0, fixedStatus |-> 200, validator |-> "none",
     closed |-> FALSE, client |-> "get"]

TestStaleWhileRevalidateWithoutDurationWhenNonZeroDefaultGrace ==
    [name |-> "TestStaleWhileRevalidateWithoutDurationWhenNonZeroDefaultGrace",
     DefaultTtl |-> 0, DefaultGrace |-> 10,
     Vcl |-> "builtin", echoStatus |-> FALSE, cc |-> CCSMaxAge1SwrNoDuration,
     sleep |-> "allAfterCount",
     DefaultKeep |-> 0, fixedStatus |-> 200, validator |-> "none",
     closed |-> FALSE, client |-> "get"]

TestStaleWhileRevalidateZeroDoesNotMeanDefaultGrace ==
    [name |-> "TestStaleWhileRevalidateZeroDoesNotMeanDefaultGrace",
     DefaultTtl |-> 0, DefaultGrace |-> 10,
     Vcl |-> "builtin", echoStatus |-> FALSE, cc |-> CCMaxAge1Swr0,
     sleep |-> "allAfterCount",
     DefaultKeep |-> 0, fixedStatus |-> 200, validator |-> "none",
     closed |-> FALSE, client |-> "get"]

TestSetBerespTtlToTinyValueAllowsForStaleWhileRevalidate ==
    [name |-> "TestSetBerespTtlToTinyValueAllowsForStaleWhileRevalidate",
     DefaultTtl |-> 0, DefaultGrace |-> 0,
     Vcl |-> "tinyTtlForSwr", echoStatus |-> FALSE, cc |-> CCSwr1, sleep |-> "none",
     DefaultKeep |-> 0, fixedStatus |-> 200, validator |-> "none",
     closed |-> FALSE, client |-> "get"]

TestStaleWhileRevalidateWithoutTtlOrExpiresAndZeroDefaultTtl ==
    [name |-> "TestStaleWhileRevalidateWithoutTtlOrExpiresAndZeroDefaultTtl",
     DefaultTtl |-> 0, DefaultGrace |-> 0,
     Vcl |-> "builtin", echoStatus |-> FALSE, cc |-> CCSwr1, sleep |-> "none",
     DefaultKeep |-> 0, fixedStatus |-> 200, validator |-> "none",
     closed |-> FALSE, client |-> "get"]

TestCacheControlNoCache ==
    [name |-> "TestCacheControlNoCache",
     DefaultTtl |-> 0, DefaultGrace |-> 0,
     Vcl |-> "builtin", echoStatus |-> FALSE, cc |-> CCNoCache, sleep |-> "none",
     DefaultKeep |-> 0, fixedStatus |-> 200, validator |-> "none",
     closed |-> FALSE, client |-> "get"]

TestDoNotSetBerespTtlWhenCacheControlPrivate ==
    [name |-> "TestDoNotSetBerespTtlWhenCacheControlPrivate",
     DefaultTtl |-> 0, DefaultGrace |-> 0,
     Vcl |-> "tinyTtlForSwr", echoStatus |-> FALSE, cc |-> CCPrivateSwr1, sleep |-> "none",
     DefaultKeep |-> 0, fixedStatus |-> 200, validator |-> "none",
     closed |-> FALSE, client |-> "get"]

TestVaryOnOrigin ==
    [name |-> "TestVaryOnOrigin",
     DefaultTtl |-> 0, DefaultGrace |-> 0,
     Vcl |-> "varyOrigin", echoStatus |-> FALSE, cc |-> CCMaxAge300Swr30,
     sleep |-> "none",
     DefaultKeep |-> 0, fixedStatus |-> 200, validator |-> "none",
     closed |-> FALSE, client |-> "origin"]

TestRfc9211CacheStatusImplementation ==
    [name |-> "TestRfc9211CacheStatusImplementation",
     DefaultTtl |-> 1, DefaultGrace |-> 0,
     Vcl |-> "cacheStatus", echoStatus |-> FALSE, cc |-> NoCC, sleep |-> "none",
     DefaultKeep |-> 0, fixedStatus |-> 200, validator |-> "none",
     closed |-> FALSE, client |-> "cacheStatus"]

TestRangeRequestIsAlwaysNonRangedForBackend ==
    [name |-> "TestRangeRequestIsAlwaysNonRangedForBackend",
     DefaultTtl |-> 0, DefaultGrace |-> 0,
     Vcl |-> "builtin", echoStatus |-> FALSE, cc |-> CCMaxAge100, sleep |-> "none",
     DefaultKeep |-> 0, fixedStatus |-> 200, validator |-> "none",
     closed |-> FALSE, client |-> "range"]

TestSetXCacheResponseHeaderOnHitOrMiss ==
    [name |-> "TestSetXCacheResponseHeaderOnHitOrMiss",
     DefaultTtl |-> 0, DefaultGrace |-> 0,
     Vcl |-> "xCache", echoStatus |-> FALSE, cc |-> CCMaxAge1Swr1, sleep |-> "none",
     DefaultKeep |-> 0, fixedStatus |-> 200, validator |-> "none",
     closed |-> FALSE, client |-> "get"]

TestMaxAge0AndNoCacheInRequest ==
    [name |-> "TestMaxAge0AndNoCacheInRequest",
     DefaultTtl |-> 1, DefaultGrace |-> 0,
     Vcl |-> "builtin", echoStatus |-> FALSE, cc |-> NoCC, sleep |-> "none",
     DefaultKeep |-> 0, fixedStatus |-> 200, validator |-> "none",
     closed |-> FALSE, client |-> "cacheControl"]

TestClientConditionalRequestWithEtag ==
    [name |-> "TestClientConditionalRequestWithEtag",
     DefaultTtl |-> 1, DefaultGrace |-> 0,
     Vcl |-> "builtin", echoStatus |-> FALSE, cc |-> NoCC, sleep |-> "none",
     DefaultKeep |-> 0, fixedStatus |-> 200, validator |-> "none",
     closed |-> FALSE, client |-> "ifNoneMatch"]

Profiles ==
    { TestNoCacheControl,
      TestNoCachingOf500ErrorInGracePeriodAfter200Request,
      TestAbandon5xxResponseInGracePeriodWhen2xxCached,
      TestCacheControlMaxAge1,
      TestStaleWhileRevalidate,
      TestHitForMissAndNoRequestCoalescingWhenNoStore }

\* the set-ups whose backend answers 5xx or cannot be reached
Profiles5xx ==
    { TestNoCachingOf500ErrorOnFirstRequest,
      TestTtlOn5xxBackendResponseIsNotAutomaticallyHitForMiss,
      TestExplicitMarkingAsUncacheableOn5xxBackendResponseIsHitForMiss,
      Test503FromBackendIsNotVclBackendError,
      TestNoConnectionToBackendIsVclBackendError }

\* the set-ups whose backend answers 304
ProfilesRevalidate ==
    { TestConditionalRequestWhenRevalidatingWithEtag,
      TestConditionalRequestWhenRevalidatingWithLastModified,
      TestBackendRespondsWith304WhenUnconditionalRequest }

\* the set-ups that are about vcl_recv: pass, req.grace and req.ttl
ProfilesRecv ==
    { TestNoCachingOfPost,
      TestNoCachingWhenRequestHasAuthorizationHeader,
      TestNoCachingWhenRequestHasCookieHeader,
      TestReturnPassInVclRecvBypassesTheCache,
      TestSettingReqGraceInVclRecvIsUpperCapForBerespGraceInVclBackendResponse,
      TestSettingReqGraceInVclRecvIsUpperCapForSwrOfBackendResponse,
      TestSettingReqTtlInVclRecvIsNoUpperCapForBerespTtlInVclBackendResponse }

\* the set-ups that are about where the grace of an object comes from
ProfilesGrace ==
    { TestStaleWhileRevalidateWithoutDurationWhenZeroDefaultGrace,
      TestStaleWhileRevalidateWithoutDurationWhenNonZeroDefaultGrace,
      TestStaleWhileRevalidateZeroDoesNotMeanDefaultGrace,
      TestSetBerespTtlToTinyValueAllowsForStaleWhileRevalidate,
      TestStaleWhileRevalidateWithoutTtlOrExpiresAndZeroDefaultTtl,
      TestCacheControlNoCache,
      TestDoNotSetBerespTtlWhenCacheControlPrivate }

\* a Vcl whose vcl_backend_response abandons every 5xx response, of
\* synchronous fetches too (the Vcl of
\* TestAbandon5xxResponseInGracePeriodWhen2xxCached without its
\* bereq.is_bgfetch condition)
Abandon5xxOfEveryFetch ==
    [name |-> "Abandon5xxOfEveryFetch",
     DefaultTtl |-> 1, DefaultGrace |-> 1,
     Vcl |-> "abandon5xx", echoStatus |-> TRUE, cc |-> NoCC, sleep |-> "none",
     DefaultKeep |-> 0, fixedStatus |-> 200, validator |-> "none",
     closed |-> FALSE, client |-> "get"]

\* the set-ups whose client asks for revalidation or sends a condition
ProfilesClient ==
    { TestMaxAge0AndNoCacheInRequest,
      TestClientConditionalRequestWithEtag }

\* the set-up that reports hit, miss and pass in Cache-Status
ProfilesStatus == {TestRfc9211CacheStatusImplementation}

\* the set-ups that are about what is delivered: variants, ranges and the
\* marks of vcl_hit and vcl_miss
ProfilesDeliver ==
    { TestVaryOnOrigin,
      TestRangeRequestIsAlwaysNonRangedForBackend,
      TestSetXCacheResponseHeaderOnHitOrMiss }

\* a duration argument of varnishd ("-t 1s", "-p default_grace=10s"), in
\* ticks; 120s is the default ttl of varnishd itself
Seconds(s) ==
    CASE s = "0s" -> 0
      [] s = "1s" -> 1
      [] s = "2s" -> 2
      [] s = "10s" -> 10
      [] s = "120s" -> 120

\* mutation: an empty field leaves the default of varnishd in place
withDefault_VarnishDefault(s, defaultValue) == IF s = "" THEN "120s" ELSE s

withDefault(s, defaultValue) == IF s = "" THEN defaultValue ELSE s

\* the parameters varnishd runs with under VarnishConfig config
StartVarnishInDocker(config) ==
    [DefaultTtl |-> Seconds(withDefault(config.DefaultTtl, "0s")),
     DefaultGrace |-> Seconds(withDefault(config.DefaultGrace, "0s")),
     DefaultKeep |-> Seconds(withDefault(config.DefaultKeep, "0s"))]

\* the VarnishConfigs of the ttl set-ups: each field empty or set
EmptyConfig == [DefaultTtl |-> "", DefaultGrace |-> "", DefaultKeep |-> ""]

Configs ==
    { EmptyConfig,
      [EmptyConfig EXCEPT !.DefaultTtl = "2s"],
      [EmptyConfig EXCEPT !.DefaultGrace = "1s", !.DefaultKeep = "1s"] }

\* the responses of the ttl set-ups: each of s-maxage=1, max-age=2 and an
\* Expires one second after Date present or absent
TtlCCs ==
    { [NoCC EXCEPT !.sMaxAge = s, !.maxAge = m, !.expires = e] :
        s \in {-1, 1}, m \in {-1, 2}, e \in {-1, 1} }

\* a set-up with VarnishConfig config, the builtin VCL and a backend that
\* answers 200 with the freshness headers cc
TtlSetUp(config, cc) ==
    LET param == StartVarnishInDocker(config) IN
    [name |-> "TtlSource",
     DefaultTtl |-> param.DefaultTtl, DefaultGrace |-> param.DefaultGrace,
     Vcl |-> "builtin", echoStatus |-> FALSE, cc |-> cc, sleep |-> "none",
     DefaultKeep |-> param.DefaultKeep, fixedStatus |-> 200,
     validator |-> "none", closed |-> FALSE, client |-> "get"]

\* the set-ups that are about where the ttl of an object comes from
ProfilesTtl == {TtlSetUp(config, cc) : config \in Configs, cc \in TtlCCs}

Max(a, b) == IF a >= b THEN a ELSE b

Min(a, b) == IF a <= b THEN a ELSE b

\* the statuses for which the vcl_backend_response of the 5xx tests acts
Is5xxOfVcl(status) == status = 500 \/ (status >= 502 /\ status <= 504)

\* "set beresp.ttl = 1s; set beresp.grace = 10s;" of the Vcl of p, in ticks
VclSetTtl == 1

VclSetGrace == 10

VclSetsTtlGrace(p, status) ==
    p.Vcl \in {"ttlGrace5xx", "uncacheable5xx"} /\ Is5xxOfVcl(status)

\* "set beresp.ttl = 100ms; set beresp.grace = 10s;" for every response:
\* 100ms is less than one tick, a ttl of 0 ticks that is above zero
VclSetsTtl100ms(p) == p.Vcl = "reqGrace1sTtl100msGrace10s"

\* "set beresp.ttl = 10s;" for every response
VclSetsTtl10s(p) == p.Vcl = "reqTtl0sTtl10s"

VclSetTtl10s == 10

\* "set req.ttl = 0s;" of vcl_recv, -1 when vcl_recv does not set it
VclRecvTtl(p) == IF p.Vcl = "reqTtl0sTtl10s" THEN 0 ELSE -1

\* mutation: vcl_recv sets no req.grace
VclRecvGrace_Unset(p) == -1

\* "set req.grace = 1s;" of vcl_recv, -1 when vcl_recv does not set it
VclRecvGrace(p) ==
    IF p.Vcl \in {"reqGrace1sTtl100msGrace10s", "reqGrace1s"} THEN 1 ELSE -1

\* the kinds of request the client of p sends for "/"
ClientKinds(p) ==
    CASE p.client = "origin" -> {"originA", "originB"}
      [] p.client = "ifNoneMatch" -> {"get", "ifNoneMatch", "ifNoneMatchOther"}
      [] p.client = "cacheStatus" ->
           {"post", "put", "authorization", "cookie", "get",
            "postAuthorization", "authorizationCookie"}
      [] OTHER -> {"get", p.client}

\* the X-Status-Code values a client of profile p sends
XStatusCodes(p) ==
    IF p.echoStatus THEN {StatusOK, StatusInternalServerError} ELSE {StatusOK}

\* a ttl from which on the test does not wait for the object to expire
LongTtl == 100

\* last tick explored under profile p
Horizon(p) ==
    IF VclSetsTtlGrace(p, p.fixedStatus)
    THEN VclSetTtl + VclSetGrace + Slack
    ELSE IF p.cc.maxAge >= LongTtl
    THEN 1 + Slack
    ELSE IF VclSetsTtl10s(p)
    THEN VclSetTtl10s + Slack
    ELSE IF VclRecvGrace(p) >= 0
    THEN Max(p.DefaultTtl, p.cc.maxAge) + VclRecvGrace(p) + Slack
    ELSE Max(p.DefaultTtl, Max(p.cc.maxAge, Max(p.cc.sMaxAge, p.cc.expires)))
            + Max(p.DefaultGrace, p.cc.swr)
            + p.DefaultKeep
            + (IF p.sleep = "none" THEN 0 ELSE 2 * sleepTime) + Slack

(* ------------------------------ objects -------------------------------- *)

\* the request header values an object was recorded with, for the headers
\* its Vary names
NoVaried == [origin |-> "", acceptEncoding |-> ""]

NoObj == [status |-> 0, x |-> 0, insertedAt |-> 0, ttl |-> 0, grace |-> 0,
          uncacheable |-> FALSE, keep |-> 0, body |-> "",
          etag |-> "", lastModified |-> "",
          vary |-> {}, varied |-> NoVaried, acao |-> ""]

\* the validators a backend request carries; NoCond: an unconditional request
NoCond == [ifNoneMatch |-> "", ifModifiedSince |-> ""]

NoResp == [status |-> 0, x |-> 0]

\* what the client reads from a delivered object: status code and X-Response
respOf(o) == [status |-> o.status, x |-> o.x]

(* ------------------------------ requests ------------------------------- *)

\* method, Authorization and Cookie of a request; the header values of
\* request i are named by i, 0 stands for "header absent"
NoHdr == [method |-> "", authorization |-> 0, cookie |-> 0,
          origin |-> "", acceptEncoding |-> "", range |-> "",
          ifNoneMatch |-> "", cacheControl |-> ""]

\* the request of a plain mkReq
GetHdr == [NoHdr EXCEPT !.method = "GET"]

\* withMethod(POST), withAuthorization, withCookie, withOrigin, withRange,
\* two of them, or a plain mkReq
ClientHeaders(kind, i) ==
    CASE kind = "post" -> [GetHdr EXCEPT !.method = "POST"]
      [] kind = "put" -> [GetHdr EXCEPT !.method = "PUT"]
      [] kind = "postAuthorization" ->
           [GetHdr EXCEPT !.method = "POST", !.authorization = i]
      [] kind = "authorizationCookie" ->
           [GetHdr EXCEPT !.authorization = i, !.cookie = i]
      [] kind = "range" -> [GetHdr EXCEPT !.range = "bytes=0.."]
      [] kind = "ifNoneMatch" -> [GetHdr EXCEPT !.ifNoneMatch = "12345"]
      [] kind = "ifNoneMatchOther" -> [GetHdr EXCEPT !.ifNoneMatch = "1234"]
      [] kind = "cacheControl" ->
           [GetHdr EXCEPT !.cacheControl = "max-age=0, no-cache"]
      [] kind = "authorization" -> [GetHdr EXCEPT !.authorization = i]
      [] kind = "cookie" -> [GetHdr EXCEPT !.cookie = i]
      [] kind = "originA" -> [GetHdr EXCEPT !.origin = OriginA]
      [] kind = "originB" -> [GetHdr EXCEPT !.origin = OriginB]
      [] OTHER -> GetHdr

\* A client request and the backend fetch it started, if any.  X-Request of
\* request i is i, so X-Response names the request whose fetch produced a
\* response.
\*   pc      "wait"  blocked on the in-flight fetch of another request
\*           "fetch" blocked on its own backend fetch
\*           "done"  answered (resp, doneAt)
\*   first   result of the lookup on arrival, seen the object it found,
\*           sub the request whose in-flight fetch it found (0: none)
\*   fetch   "none", "sync" (miss), "hitmiss" (miss on a hit-for-miss
\*           marker), "bg" (background fetch of a stale hit), "pass"
\*   hdr     the headers the client sent, bereq those the backend got
\*   fstate  "none", "run" (handler sleeping), "loaded" (handler read
\*           backendRequests), "counted" (handler wrote backendRequests
\*           and sleeps), "done", "abandoned", "failed" (backend fetch
\*           error)
\*   cond    the validators the fetch carries, stale the object they are
\*           from; body the response body the client read, acao its
\*           Access-Control-Allow-Origin
\*   mark    what vcl_hit, vcl_miss or vcl_pass set on the request;
\*           xCache, cacheStatus the response headers the client read
NewReq(k, xs, t) ==
    [key |-> k, xStatusCode |-> xs, arrived |-> t, pc |-> "new",
     first |-> "none", seen |-> NoObj, sub |-> 0, waited |-> FALSE,
     fetch |-> "none", fstate |-> "none", fstart |-> 0, fdone |-> 0, tmp |-> 0,
     beresp |-> NoResp, resp |-> NoResp, doneAt |-> 0,
     cond |-> NoCond, stale |-> NoObj, body |-> "", etag |-> "",
     hdr |-> NoHdr, bereq |-> NoHdr, acao |-> "",
     mark |-> "", xCache |-> "", cacheStatus |-> ""]

(* --------------------------- backend handler --------------------------- *)

\* startTestServer answers /health itself; every other path runs the
\* handler of the test.
HandlerStatus(p, k, xs) ==
    IF k = "/health" THEN StatusOK
    ELSE IF p.echoStatus THEN xs ELSE p.fixedStatus

HandlerCC(p, k) == IF k = "/health" THEN CCNoStore ELSE p.cc

HandlerXResponse(k, x) == IF k = "/health" THEN 0 ELSE x

HandlerSleep(p, k, x) ==
    IF k = "/health" THEN 0
    ELSE CASE p.sleep = "all" -> sleepTime
           [] p.sleep = "allAfterCount" -> sleepTime
           [] p.sleep = "x2" -> (IF x = 2 THEN sleepTime ELSE 0)
           [] OTHER -> 0

\* the handler executes backendRequests++ before it sleeps
CountsBeforeSleep(p, k) == k # "/health" /\ p.sleep = "allAfterCount"

\* the handlers of the conditional-request tests answer by the value of
\* backendRequests: 200 with body "foo" at 0, 304 at 1, and after the
\* failed assertion of any later call the implicit 200 without a body
AnswersByCount(p, k) == k # "/health" /\ p.validator # "none"

\* status of the n-th call (n = backendRequests when the handler ran)
HandlerStatusN(p, k, xs, n) ==
    IF AnswersByCount(p, k)
    THEN (IF n = 1 THEN StatusNotModified ELSE StatusOK)
    ELSE HandlerStatus(p, k, xs)

\* the handler of the range test writes "foo" for every request
WritesFoo(p, k) == k # "/health" /\ p.client \in {"range", "ifNoneMatch"}

HandlerBody(p, k, n) ==
    IF (AnswersByCount(p, k) /\ n = 0) \/ WritesFoo(p, k) THEN "foo" ELSE ""

HandlerEtag(p, k) ==
    IF k # "/health" /\ p.validator = "etag" THEN "1234"
    ELSE IF k # "/health" /\ p.client = "ifNoneMatch" THEN "12345" ELSE ""

HandlerLastModified(p, k) ==
    IF k # "/health" /\ p.validator = "lastModified" THEN "lastModified" ELSE ""

\* the handler of TestVaryOnOrigin sets Access-Control-Allow-Origin to the
\* Origin of the request it got, and Vary: Accept-Encoding
EchoesOrigin(p, k) == k # "/health" /\ p.client = "origin"

HandlerAcao(p, k, bereq) == IF EchoesOrigin(p, k) THEN bereq.origin ELSE ""

HandlerVary(p, k) == IF EchoesOrigin(p, k) THEN {"Accept-Encoding"} ELSE {}

\* mutation: the backend is always reachable
BackendUp_Always(p) == TRUE

\* the backend is reachable (the test did not close it)
BackendUp(p) == ~p.closed

\* mutation: the requests for /health are counted, too
HandlerCounts_Health(k) == TRUE

\* only the handler of the test executes backendRequests++
HandlerCounts(k) == k # "/health"

(* ------------------------------ freshness ------------------------------ *)

\* mutation: a 5xx response gets its ttl like any other status
BerespTtl_5xxLikeOthers(p, status, cc) ==
    IF cc.sMaxAge >= 0 THEN cc.sMaxAge
    ELSE IF cc.maxAge >= 0 THEN cc.maxAge
    ELSE IF cc.expires >= 0 THEN cc.expires ELSE p.DefaultTtl

\* mutation: max-age is not read, only the default ttl counts
BerespTtl_DefaultOnly(p, status, cc) ==
    IF status >= 500 THEN 0 ELSE p.DefaultTtl

\* mutation: max-age is read before s-maxage
BerespTtl_MaxAgeFirst(p, status, cc) ==
    IF status >= 500 THEN 0
    ELSE IF cc.maxAge >= 0 THEN cc.maxAge
    ELSE IF cc.sMaxAge >= 0 THEN cc.sMaxAge
    ELSE IF cc.expires >= 0 THEN cc.expires ELSE p.DefaultTtl

\* Expires minus Date of the response, -1 without Expires
ExpiresTtl(cc) == cc.expires

\* a 500 without caching headers gets no ttl even with a default ttl;
\* otherwise s-maxage, else max-age, else Expires minus Date, else the
\* default ttl
BerespTtl(p, status, cc) ==
    IF status >= 500 THEN 0
    ELSE IF cc.sMaxAge >= 0 THEN cc.sMaxAge
    ELSE IF cc.maxAge >= 0 THEN cc.maxAge
    ELSE IF ExpiresTtl(cc) >= 0 THEN ExpiresTtl(cc) ELSE p.DefaultTtl

\* mutation: stale-while-revalidate without a duration counts as a grace of 0
BerespGrace_NoDurationIsZero(p, cc) ==
    IF cc.swr >= 0 THEN cc.swr
    ELSE IF cc.swr = NoDuration THEN 0 ELSE p.DefaultGrace

\* mutation: stale-while-revalidate=0 falls back to the default grace
BerespGrace_ZeroIsDefault(p, cc) == IF cc.swr > 0 THEN cc.swr ELSE p.DefaultGrace

\* stale-while-revalidate=<seconds>, else (directive absent or without a
\* duration) the default grace
BerespGrace(p, cc) == IF cc.swr >= 0 THEN cc.swr ELSE p.DefaultGrace

\* beresp.ttl and beresp.grace when vcl_backend_response of p has run
VclTtl(p, status, cc) ==
    IF VclSetsTtlGrace(p, status) THEN VclSetTtl
    ELSE IF VclSetsTtl100ms(p) THEN 0
    ELSE IF VclSetsTtl10s(p) THEN VclSetTtl10s
    ELSE BerespTtl(p, status, cc)

VclGrace(p, status, cc) ==
    IF VclSetsTtlGrace(p, status) \/ VclSetsTtl100ms(p) THEN VclSetGrace
    ELSE BerespGrace(p, cc)

\* mutation: the Vcl raises the ttl also when the response is private,
\* no-store or no-cache
VclSetsTtl1ms_AlsoPrivate(p, status, cc) ==
    /\ p.Vcl = "tinyTtlForSwr"
    /\ BerespTtl(p, status, cc) = 0
    /\ cc.swr # -1

\* mutation: the Vcl never raises the ttl
VclSetsTtl1ms_Never(p, status, cc) == FALSE

\* "if (beresp.ttl == 0s && beresp.http.Cache-Control ~
\* "stale-while-revalidate" && beresp.http.Cache-Control !~
\* "private|no-store|no-cache") { set beresp.ttl = 1ms; }": 1ms is less than
\* one tick, a ttl of 0 ticks that is above zero
VclSetsTtl1ms(p, status, cc) ==
    /\ p.Vcl = "tinyTtlForSwr"
    /\ BerespTtl(p, status, cc) = 0
    /\ cc.swr # -1
    /\ ~(cc.private \/ cc.noStore \/ cc.noCache)

\* mutation: a 5xx response never has a ttl, whatever the Vcl set
TtlPositive_Never5xx(p, status, cc) ==
    status < 500 /\ (VclSetsTtl100ms(p) \/ VclTtl(p, status, cc) > 0)

\* mutation: a response without ttl counts as cacheable when it has grace
TtlPositive_OrGrace(p, status, cc) ==
    \/ VclSetsTtl100ms(p) \/ VclSetsTtl1ms(p, status, cc)
    \/ VclTtl(p, status, cc) > 0
    \/ VclGrace(p, status, cc) > 0

\* the response has a ttl above zero when the builtin part of
\* vcl_backend_response looks at it
TtlPositive(p, status, cc) ==
    \/ VclSetsTtl100ms(p) \/ VclSetsTtl1ms(p, status, cc)
    \/ VclTtl(p, status, cc) > 0

\* mutation: "set beresp.uncacheable = true" has no effect
VclUncacheable_Ignored(p, status) == FALSE

\* "set beresp.uncacheable = true;" of the Vcl of p
VclUncacheable(p, status) == p.Vcl = "uncacheable5xx" /\ Is5xxOfVcl(status)

\* marked by the Vcl, no-store, or nothing to keep the object fresh:
\* hit-for-miss
BerespUncacheable(p, status, cc) ==
    VclUncacheable(p, status) \/ cc.noStore \/ ~TtlPositive(p, status, cc)

\* lifetime of the marker: the ttl the Vcl set with the mark, else 120s
MarkerTtl(p, status, cc) ==
    IF VclUncacheable(p, status) THEN VclTtl(p, status, cc) ELSE HitMissTtl

\* mutation: the hook never abandons
VclBackendResponse_NeverAbandon(p, status, isBgfetch) == "deliver"

\* mutation: 5xx answers to background fetches are abandoned under every Vcl
VclBackendResponse_AbandonAlways(p, status, isBgfetch) ==
    IF (status = 500 \/ (status >= 502 /\ status <= 504)) /\ isBgfetch
    THEN "abandon" ELSE "deliver"

\* mutation: only responses to background fetches are ever abandoned
VclBackendResponse_BgfetchOnly(p, status, isBgfetch) ==
    IF /\ p.Vcl \in {"abandon5xxBgfetch", "abandon5xx"}
       /\ (status = 500 \/ (status >= 502 /\ status <= 504))
       /\ isBgfetch
    THEN "abandon" ELSE "deliver"

\* sub vcl_backend_response of the profile's Vcl
VclBackendResponse(p, status, isBgfetch) ==
    IF /\ p.Vcl \in {"abandon5xxBgfetch", "abandon5xx"}
       /\ (status = 500 \/ (status >= 502 /\ status <= 504))
       /\ isBgfetch \/ p.Vcl = "abandon5xx"
    THEN "abandon" ELSE "deliver"

\* the object (or hit-for-miss marker) inserted for a backend response
NewObject(p, status, x, cc, t) ==
    IF BerespUncacheable(p, status, cc)
    THEN [status |-> status, x |-> x, insertedAt |-> t,
          ttl |-> MarkerTtl(p, status, cc), grace |-> 0, uncacheable |-> TRUE,
          keep |-> 0, body |-> "", etag |-> "", lastModified |-> "",
          vary |-> {}, varied |-> NoVaried, acao |-> ""]
    ELSE [status |-> status, x |-> x, insertedAt |-> t,
          ttl |-> VclTtl(p, status, cc), grace |-> VclGrace(p, status, cc),
          uncacheable |-> FALSE,
          keep |-> p.DefaultKeep, body |-> "", etag |-> "", lastModified |-> "",
          vary |-> {}, varied |-> NoVaried, acao |-> ""]

\* mutation: the Vcl leaves Vary as the backend sent it
VclVary_Unchanged(p, vary, acao) == vary

\* vcl_backend_response of TestVaryOnOrigin: a response with an
\* Access-Control-Allow-* header gets Origin added to its Vary
VclVary(p, vary, acao) ==
    IF p.Vcl = "varyOrigin" /\ acao # "" THEN vary \cup {"Origin"} ELSE vary

\* the values of the request headers that Vary names
Varied(vary, bereq) ==
    [origin |-> IF "Origin" \in vary THEN bereq.origin ELSE "",
     acceptEncoding |-> IF "Accept-Encoding" \in vary
                        THEN bereq.acceptEncoding ELSE ""]

\* the object with its Vary, the request header values it is recorded
\* with, and its Access-Control-Allow-Origin
WithVary(o, vary, bereq, acao) ==
    [o EXCEPT !.vary = vary, !.varied = Varied(vary, bereq), !.acao = acao]

\* the object of a 200 (or other) response with its body and validators
WithBody(o, body, etag, lastModified) ==
    [o EXCEPT !.body = body, !.etag = etag, !.lastModified = lastModified]

\* mutation: the body of the 304 (none) replaces the stored body
Revalidated_BodyOf304(stale, o, etag, lastModified) ==
    [o EXCEPT !.body = "", !.etag = etag, !.lastModified = lastModified]

\* a 304 to a conditional fetch: status and body of the stale object,
\* freshness and the other headers of the 304 (o is the object made of
\* the 304's headers)
Revalidated(stale, o, etag, lastModified) ==
    [o EXCEPT !.body = stale.body,
              !.etag = IF etag # "" THEN etag ELSE stale.etag,
              !.lastModified = IF lastModified # "" THEN lastModified
                               ELSE stale.lastModified]

\* the body vcl_backend_error gives the synthetic 503
VclBackendError(p) ==
    IF p.Vcl = "backendErrorBody" THEN "ERROR: 503 Backend fetch failed"
    ELSE "builtin error page"

\* the synthetic response of a backend fetch error
ErrorResp == [status |-> StatusServiceUnavailable, x |-> 0]

\* mutation: a 304 is taken as a revalidation even when the fetch carried
\* no validator
Is304Error_Never(status, cond) == FALSE

\* mutation: a 503 status received from the backend is a fetch error, too
Is304Error_Also503(status, cond) ==
    \/ status = StatusNotModified /\ cond = NoCond
    \/ status = StatusServiceUnavailable

\* a 304 for a fetch that carried no validator is a backend fetch error
Is304Error(status, cond) == status = StatusNotModified /\ cond = NoCond

\* what a backend fetch error leaves in the store: nothing
StoreAfterError(st, k) == st

(* -------------------------------- lookup ------------------------------- *)

\* mutation: the recorded header values are not compared
VaryMatch_Any(o, hdr) == TRUE

\* the request has, for every header the Vary of the object names, the
\* value the object was recorded with
VaryMatch(o, hdr) == Varied(o.vary, hdr) = o.varied

\* the stored variants of URL k that match the request
Matching(st, k, hdr) ==
    {c \in Variants(k) : st[c] # NoObj /\ VaryMatch(st[c], hdr)}

\* the object the lookup of a request for URL k finds: a variant that
\* matches, NoObj when there is none
Select(st, k, hdr) ==
    IF Matching(st, k, hdr) = {} THEN NoObj
    ELSE st[CHOOSE c \in Matching(st, k, hdr) : TRUE]

\* the cache key object o of URL k is stored under
KeyOf(k, o) == CacheKey(k, o.varied.origin)

Age(o, t) == t - o.insertedAt

\* mutation: a hit-for-miss marker is not recognised, the lookup is a plain miss
Lookup_NoHitMiss(o, t) ==
    IF o = NoObj \/ o.uncacheable THEN "miss"
    ELSE IF Age(o, t) < o.ttl THEN "hit"
    ELSE IF Age(o, t) < o.ttl + o.grace THEN "grace"
    ELSE "miss"

\* mutation: grace is not recognised, a stale object is a miss
Lookup_NoGrace(o, t) ==
    IF o = NoObj THEN "miss"
    ELSE IF o.uncacheable
         THEN (IF Age(o, t) < o.ttl THEN "hitmiss" ELSE "miss")
    ELSE IF Age(o, t) < o.ttl THEN "hit"
    ELSE "miss"

\* mutation: a kept object is served like one within grace
Lookup_KeepIsGrace(o, t) ==
    IF o = NoObj THEN "miss"
    ELSE IF o.uncacheable
         THEN (IF Age(o, t) < o.ttl THEN "hitmiss" ELSE "miss")
    ELSE IF Age(o, t) < o.ttl THEN "hit"
    ELSE IF Age(o, t) < o.ttl + o.grace + o.keep THEN "grace"
    ELSE "miss"

Lookup(o, t) ==
    IF o = NoObj THEN "miss"
    ELSE IF o.uncacheable
         THEN (IF Age(o, t) < o.ttl THEN "hitmiss" ELSE "miss")
    ELSE IF Age(o, t) < o.ttl THEN "hit"
    ELSE IF Age(o, t) < o.ttl + o.grace THEN "grace"
    ELSE "miss"

\* mutation: a stored object is kept for ever
Retained_Forever(o, t) == o # NoObj /\ ~o.uncacheable

\* the object is still kept: within ttl, grace and keep
Retained(o, t) ==
    o # NoObj /\ ~o.uncacheable /\ Age(o, t) < o.ttl + o.grace + o.keep

\* mutation: no fetch is conditional
CondOf_Unconditional(o, t) == NoCond

\* a fetch started while a stale object is kept carries its validators
CondOf(o, t) ==
    IF Retained(o, t)
    THEN [ifNoneMatch |-> o.etag, ifModifiedSince |-> o.lastModified]
    ELSE NoCond

\* the registered in-flight fetches of key k (tokens name the requests
\* that fetch; others of the key wait for them)
InFlightFetch(tokens, rs, k) == {i \in tokens : rs[i].key = k}

Busy(tokens, rs, k) == InFlightFetch(tokens, rs, k) # {}

\* a miss fetch or background fetch registers as the in-flight fetch of its key
Register(tokens, i) == tokens \cup {i}

\* mutation: the token of an abandoned fetch stays registered
Release_UnlessAbandoned(tokens, i, verdict) ==
    IF verdict = "abandon" THEN tokens ELSE tokens \ {i}

\* the fetch of request i completed with the given verdict
\* ("deliver" or "abandon"): its token is removed
Release(tokens, i, verdict) == tokens \ {i}

\* mutation: a woken request does not look at the store again and fetches
Relookup_AlwaysMiss(o, t) == "miss"

\* a request woken from the waiting list looks the key up again
Relookup(o, t) == Lookup(o, t)

\* mutation: a miss never waits, it fetches at once
WaitsForInFlight_Never(busy) == FALSE

\* a miss waits for the in-flight fetch of its key instead of fetching
WaitsForInFlight(busy) == busy

\* mutation: every stale hit starts a background fetch
StartsBgFetch_Always(busy) == TRUE

\* a stale hit starts a background fetch unless one is in flight for the key
StartsBgFetch(busy) == ~busy

\* mutation: a request with Cache-Control: no-cache bypasses the cache
VclRecv_PassOnNoCache(p, k, hdr) ==
    IF \/ hdr.method \notin {"GET", "HEAD"}
       \/ hdr.authorization # 0
       \/ hdr.cookie # 0
       \/ hdr.cacheControl # ""
       \/ p.Vcl = "passIfXRequest" /\ k # "/health"
    THEN "pass" ELSE "hash"

\* mutation: vcl_recv never returns pass
VclRecv_NeverPass(p, k, hdr) == "hash"

\* vcl_recv: pass for a method other than GET and HEAD, for a request with
\* Authorization or Cookie, and where the Vcl of p returns pass (for every
\* request that has X-Request, which the health check has not)
VclRecv(p, k, hdr) ==
    IF \/ hdr.method \notin {"GET", "HEAD"}
       \/ hdr.authorization # 0
       \/ hdr.cookie # 0
       \/ p.Vcl = "passIfXRequest" /\ k # "/health"
    THEN "pass" ELSE "hash"

\* mutation: req.grace does not cap the grace of the object
CapGrace_None(p, o) == o

\* the object as the lookup of a request sees it: its grace is capped by
\* req.grace when vcl_recv set it
CapGrace(p, o) ==
    IF VclRecvGrace(p) >= 0 /\ o # NoObj
    THEN [o EXCEPT !.grace = Min(o.grace, VclRecvGrace(p))]
    ELSE o

\* mutation: req.ttl caps the ttl of the object as req.grace caps its grace
CapTtl_ReqTtl(p, o) ==
    IF VclRecvTtl(p) >= 0 /\ o # NoObj /\ ~o.uncacheable
    THEN [o EXCEPT !.ttl = Min(o.ttl, VclRecvTtl(p))]
    ELSE o

\* req.ttl = 0s of vcl_recv is no cap for the ttl of the object the lookup
\* sees
CapTtl(p, o) == o

\* the object as the lookup of a request under the vcl_recv of p sees it
ReqView(p, o) == CapTtl(p, CapGrace(p, o))

\* mutation: the Range of the client request goes to the backend
Bereq_WithRange(hdr) == hdr

\* the headers of the backend request of a fetch for the cache: those of
\* the client request without Range
Bereq(hdr) == [hdr EXCEPT !.range = ""]

\* sub vcl_hit and sub vcl_miss of the Vcl of p: the mark they set on the
\* request (req.http.x-cache, req.http.Cache-Status); "" without such a sub
VclHit(p) ==
    CASE p.Vcl = "xCache" -> "hit"
      [] p.Vcl = "cacheStatus" -> "my-cache; hit"
      [] OTHER -> ""

VclMiss(p) ==
    CASE p.Vcl = "xCache" -> "miss"
      [] p.Vcl = "cacheStatus" -> "my-cache; fwd=miss"
      [] OTHER -> ""

\* mutation: Cookie is looked at before Authorization
VclPass_CookieFirst(p, hdr) ==
    IF p.Vcl # "cacheStatus" THEN ""
    ELSE IF hdr.method # "GET" /\ hdr.method # "HEAD"
    THEN "my-cache; fwd=method; detail=" \o hdr.method
    ELSE IF hdr.cookie # 0 THEN "my-cache; fwd=bypass; detail=COOKIE"
    ELSE IF hdr.authorization # 0 THEN "my-cache; fwd=bypass; detail=AUTHORIZATION"
    ELSE "my-cache; fwd=bypass; detail=OTHER"

\* sub vcl_pass of the Vcl of p: the Cache-Status it sets on the request
\* (the x-cache = "pass" it sets, too, is not copied to the response)
VclPass(p, hdr) ==
    IF p.Vcl # "cacheStatus" THEN ""
    ELSE IF hdr.method # "GET" /\ hdr.method # "HEAD"
    THEN "my-cache; fwd=method; detail=" \o hdr.method
    ELSE IF hdr.authorization # 0 THEN "my-cache; fwd=bypass; detail=AUTHORIZATION"
    ELSE IF hdr.cookie # 0 THEN "my-cache; fwd=bypass; detail=COOKIE"
    ELSE "my-cache; fwd=bypass; detail=OTHER"

\* mutation: vcl_miss runs for a stale object that is delivered
VclMark_StaleIsMiss(p, d, hdr, mark) ==
    CASE d = "deliver" -> VclHit(p)
      [] d \in {"deliver_bgfetch", "fetch", "fetch_hitmiss"} -> VclMiss(p)
      [] d = "pass" -> VclPass(p, hdr)
      [] OTHER -> mark

\* the mark on the request after the sub that runs for decision d:
\* vcl_hit when an object is delivered (fresh, or stale within grace),
\* vcl_miss when the request fetches, vcl_pass on pass, none while it waits
VclMark(p, d, hdr, mark) ==
    CASE d \in {"deliver", "deliver_bgfetch"} -> VclHit(p)
      [] d \in {"fetch", "fetch_hitmiss"} -> VclMiss(p)
      [] d = "pass" -> VclPass(p, hdr)
      [] OTHER -> mark

\* sub vcl_deliver of the Vcl of p, run when request r is answered: it
\* copies the mark of the request to the response
VclDeliver(p, r) ==
    IF r.pc = "done"
    THEN [r EXCEPT !.xCache = IF p.Vcl = "xCache" THEN r.mark ELSE "",
                   !.cacheStatus = IF p.Vcl = "cacheStatus" THEN r.mark ELSE ""]
    ELSE r

\* mutation: If-None-Match of the client is not looked at
ClientCond_Never(r) == r

\* the answer to a conditional client request: when the response that is
\* delivered is a 200 whose Etag equals If-None-Match of the request, the
\* client gets 304 with the headers of that response and no body
ClientCond(r) ==
    IF /\ r.pc = "done"
       /\ r.hdr.ifNoneMatch # ""
       /\ r.resp.status = StatusOK
       /\ r.etag = r.hdr.ifNoneMatch
    THEN [r EXCEPT !.resp = [status |-> StatusNotModified, x |-> r.resp.x],
                   !.body = ""]
    ELSE r

\* what the client of request r gets: vcl_deliver, then the conditional
\* answer
Deliver(p, r) == ClientCond(VclDeliver(p, r))

Decide(l, busy) ==
    CASE l = "hit" -> "deliver"
      [] l = "grace" -> (IF StartsBgFetch(busy) THEN "deliver_bgfetch" ELSE "deliver")
      [] l = "hitmiss" -> "fetch_hitmiss"
      [] OTHER -> (IF WaitsForInFlight(busy) THEN "wait" ELSE "fetch")

\* the stale object a fetch started at t against object o revalidates
StaleOf(o, t) == IF CondOf(o, t) # NoCond THEN o ELSE NoObj

\* request r (looked up at t against object o) after the decision d
Proceed(r, o, d, t) ==
    CASE d = "deliver" ->
           [r EXCEPT !.pc = "done", !.resp = respOf(o), !.doneAt = t,
                     !.body = o.body, !.etag = o.etag, !.acao = o.acao]
      [] d = "deliver_bgfetch" ->
           [r EXCEPT !.pc = "done", !.resp = respOf(o), !.doneAt = t,
                     !.body = o.body, !.etag = o.etag, !.acao = o.acao,
                     !.bereq = Bereq(r.hdr),
                     !.fetch = "bg", !.fstate = "run", !.fstart = t,
                     !.cond = CondOf(o, t), !.stale = StaleOf(o, t)]
      [] d = "fetch_hitmiss" ->
           [r EXCEPT !.pc = "fetch", !.bereq = Bereq(r.hdr),
                     !.fetch = "hitmiss", !.fstate = "run", !.fstart = t]
      [] d = "fetch" ->
           [r EXCEPT !.pc = "fetch", !.bereq = Bereq(r.hdr),
                     !.fetch = "sync", !.fstate = "run", !.fstart = t,
                     !.cond = CondOf(o, t), !.stale = StaleOf(o, t)]
      [] d = "pass" ->
           [r EXCEPT !.pc = "fetch", !.bereq = r.hdr,
                     !.fetch = "pass", !.fstate = "run", !.fstart = t]
      [] OTHER ->
           [r EXCEPT !.pc = "wait", !.waited = TRUE]

\* mutation: every delivery from cache adds a second to the ttl of the object
ObjAfterHit_Extends(o, d) ==
    IF d \in {"deliver", "deliver_bgfetch"} THEN [o EXCEPT !.ttl = @ + 1] ELSE o

\* the stored object after a request found it and took decision d: as it
\* was, a delivery from cache changes nothing of it
ObjAfterHit(o, d) == o

\* the store after the lookup of URL k found object o and took decision d
StoreAfterLookup(st, k, o, d) ==
    IF o = NoObj THEN st ELSE [st EXCEPT ![KeyOf(k, o)] = ObjAfterHit(o, d)]

(* ------------------------------- docker ------------------------------- *)

\* tests that call StartVarnishInDocker at the same time (t.Parallel())
MaxCallers == 2

Callers == 1..MaxCallers

\* the ids the docker daemon gives the containers it creates
ContainerIds == 1..MaxCallers

\* a call of StartVarnishInDocker that has just begun: pc names the step it
\* is at, id is containerResponse.ID (0: none yet), ret what it returned,
\* stop the container the returned function stops (0: the function is nil)
NewCall == [pc |-> "vcl", id |-> 0, ret |-> "none", stop |-> 0, stopErr |-> FALSE]

\* return "", nil, err
ReturnErr(k) == [k EXCEPT !.pc = "returned", !.ret = "err", !.stop = 0]

\* the state the tests send their requests in: the call of the test has
\* returned the port and the stop function, its container runs
VarnishStarted ==
    [containers |-> [id \in ContainerIds |-> IF id = 1 THEN "running" ELSE "absent"],
     calls |-> [c \in Callers |->
                  IF c = 1 THEN [NewCall EXCEPT !.pc = "returned", !.id = 1,
                                                !.ret = "ok", !.stop = 1]
                  ELSE NewCall]]

(* ------------------------------- actions ------------------------------- *)

Init ==
    /\ now = 0
    /\ profile \in Profiles
    /\ store = [c \in CacheKeys |-> NoObj]
    /\ reqs = <<>>
    /\ inflight = {}
    /\ backendRequests = 0
    /\ docker = VarnishStarted

\* mkReq / waitForHealthy: a client sends a request for key k; the cache
\* runs vcl_recv and passes, or looks the key up and delivers, fetches or
\* waits.
ClientRequest(k, xs, kind) ==
    /\ Len(reqs) < MaxReq
    /\ LET i == Len(reqs) + 1
           hdr == ClientHeaders(kind, i)
           o == Select(store, k, hdr)
           pass == VclRecv(profile, k, hdr) = "pass"
           busy == Busy(inflight, reqs, k)
           l == IF pass THEN "pass" ELSE Lookup(ReqView(profile, o), now)
           d == IF pass THEN "pass" ELSE Decide(l, busy)
           r == [NewReq(k, xs, now) EXCEPT
                    !.hdr = hdr, !.first = l, !.seen = o,
                    !.mark = VclMark(profile, d, hdr, ""),
                    !.sub = IF busy THEN CHOOSE j \in InFlightFetch(inflight, reqs, k) : TRUE
                            ELSE 0]
       IN /\ reqs' = Append(reqs, Deliver(profile, Proceed(r, o, d, now)))
          /\ inflight' = IF d \in {"fetch", "deliver_bgfetch"}
                         THEN Register(inflight, i) ELSE inflight
          /\ store' = StoreAfterLookup(store, k, o, d)
    /\ UNCHANGED <<now, profile, backendRequests, docker>>

\* the in-flight fetch of the key is gone: the waiting request looks up again
Wake(i) ==
    /\ reqs[i].pc = "wait"
    /\ ~Busy(inflight, reqs, reqs[i].key)
    /\ LET k == reqs[i].key
           o == Select(store, k, reqs[i].hdr)
           d == Decide(Relookup(ReqView(profile, o), now), FALSE)
           r == [reqs[i] EXCEPT
                    !.mark = VclMark(profile, d, reqs[i].hdr, reqs[i].mark)]
       IN /\ reqs' = [reqs EXCEPT ![i] = Deliver(profile, Proceed(r, o, d, now))]
          /\ inflight' = IF d \in {"fetch", "deliver_bgfetch"}
                         THEN Register(inflight, i) ELSE inflight
          /\ store' = StoreAfterLookup(store, k, o, d)
    /\ UNCHANGED <<now, profile, backendRequests, docker>>

FetchDue(r, i, t) ==
    r.fstate = "run" /\ t >= r.fstart + HandlerSleep(profile, r.key, i)

\* the handler of the fetch of r is about to read backendRequests
LoadDue(r, i, t) ==
    \/ FetchDue(r, i, t)
    \/ r.fstate = "run" /\ CountsBeforeSleep(profile, r.key)

\* the handler of the fetch of r has counted and slept
SleptAfterCount(r, i, t) ==
    r.fstate = "counted" /\ t >= r.fstart + HandlerSleep(profile, r.key, i)

\* backendRequests++, first half: the handler (has slept and) reads the
\* counter
HandlerLoad(i) ==
    /\ BackendUp(profile)
    /\ LoadDue(reqs[i], i, now)
    /\ HandlerCounts(reqs[i].key)
    /\ reqs' = [reqs EXCEPT ![i].fstate = "loaded", ![i].tmp = backendRequests]
    /\ UNCHANGED <<now, profile, store, inflight, backendRequests, docker>>

\* backendRequests++, second half, and the handler returns: the cache runs
\* vcl_backend_response, inserts the object (unless abandoned) and answers
\* the client blocked on this fetch.
HandlerReturn(i) ==
    /\ BackendUp(profile)
    /\ \/ reqs[i].fstate = "loaded" /\ ~CountsBeforeSleep(profile, reqs[i].key)
       \/ SleptAfterCount(reqs[i], i, now)
       \/ FetchDue(reqs[i], i, now) /\ ~HandlerCounts(reqs[i].key)
    /\ LET r == reqs[i]
           k == r.key
           status == HandlerStatusN(profile, k, r.xStatusCode, r.tmp)
           cc == HandlerCC(profile, k)
           x == HandlerXResponse(k, i)
           etag == HandlerEtag(profile, k)
           lastModified == HandlerLastModified(profile, k)
           acao == HandlerAcao(profile, k, r.bereq)
           vary == VclVary(profile, HandlerVary(profile, k), acao)
           error == Is304Error(status, r.cond)
           verdict == IF error THEN "error"
                      ELSE VclBackendResponse(profile, status, r.fetch = "bg")
           beresp == [status |-> status, x |-> x]
           new == IF status = StatusNotModified
                  THEN Revalidated(r.stale,
                                   NewObject(profile, r.stale.status, x, cc, now),
                                   etag, lastModified)
                  ELSE WithBody(NewObject(profile, status, x, cc, now),
                                HandlerBody(profile, k, r.tmp), etag, lastModified)
           obj == WithVary(new, vary, r.bereq, acao)
       IN /\ backendRequests' =
                IF HandlerCounts(k) /\ r.fstate # "counted"
                THEN r.tmp + 1 ELSE backendRequests
          /\ inflight' = Release(inflight, i, verdict)
          /\ store' = CASE verdict = "abandon" -> store
                        [] verdict = "error" -> StoreAfterError(store, k)
                        [] r.fetch = "pass" -> store
                        [] OTHER -> [store EXCEPT ![KeyOf(k, obj)] = obj]
          /\ reqs' = [reqs EXCEPT ![i] = Deliver(profile,
                IF r.fetch = "bg"
                THEN [r EXCEPT !.fstate = CASE verdict = "abandon" -> "abandoned"
                                            [] verdict = "error" -> "failed"
                                            [] OTHER -> "done",
                               !.fdone = now, !.beresp = beresp]
                ELSE IF error \/ verdict = "abandon"
                THEN [r EXCEPT !.fstate = IF error THEN "failed" ELSE "abandoned",
                               !.fdone = now, !.beresp = beresp,
                               !.pc = "done", !.resp = ErrorResp,
                               !.body = VclBackendError(profile), !.doneAt = now]
                ELSE [r EXCEPT !.fstate = "done", !.fdone = now,
                               !.beresp = beresp,
                               !.pc = "done", !.resp = respOf(obj),
                               !.body = obj.body, !.etag = obj.etag,
                               !.acao = obj.acao,
                               !.doneAt = now])]
    /\ UNCHANGED <<now, profile, docker>>

\* backendRequests++, second half, of a handler that then sleeps
HandlerStore(i) ==
    /\ BackendUp(profile)
    /\ reqs[i].fstate = "loaded"
    /\ CountsBeforeSleep(profile, reqs[i].key)
    /\ backendRequests' = reqs[i].tmp + 1
    /\ reqs' = [reqs EXCEPT ![i].fstate = "counted"]
    /\ UNCHANGED <<now, profile, store, inflight, docker>>

\* the backend cannot be reached: the fetch fails without the handler having
\* run, vcl_backend_error makes the synthetic 503 for the client
FetchFails(i) ==
    /\ ~BackendUp(profile)
    /\ reqs[i].fstate = "run"
    /\ LET r == reqs[i]
       IN /\ inflight' = Release(inflight, i, "error")
          /\ store' = StoreAfterError(store, r.key)
          /\ reqs' = [reqs EXCEPT ![i] = Deliver(profile,
                IF r.fetch = "bg"
                THEN [r EXCEPT !.fstate = "failed", !.fdone = now]
                ELSE [r EXCEPT !.fstate = "failed", !.fdone = now,
                               !.pc = "done", !.resp = ErrorResp,
                               !.body = VclBackendError(profile), !.doneAt = now])]
    /\ UNCHANGED <<now, profile, backendRequests, docker>>

\* one second passes; handlers that are due and requests that can proceed
\* do so first
Tick ==
    /\ now < Horizon(profile)
    /\ \A i \in DOMAIN reqs :
          /\ reqs[i].fstate # "loaded"
          /\ ~LoadDue(reqs[i], i, now)
          /\ ~SleptAfterCount(reqs[i], i, now)
          /\ ~(reqs[i].pc = "wait" /\ ~Busy(inflight, reqs, reqs[i].key))
    /\ now' = now + 1
    /\ UNCHANGED <<profile, store, reqs, inflight, backendRequests, docker>>

Next ==
    \/ \E xs \in XStatusCodes(profile), kind \in ClientKinds(profile) :
          ClientRequest("/", xs, kind)
    \/ ClientRequest("/health", 0, "get")
    \/ \E i \in DOMAIN reqs : Wake(i)
    \/ \E i \in DOMAIN reqs : HandlerLoad(i)
    \/ \E i \in DOMAIN reqs : HandlerReturn(i)
    \/ Tick

Spec == Init /\ [][Next]_vars

\* the same machine started in one of the 5xx set-ups
Init5xx ==
    /\ now = 0
    /\ profile \in Profiles5xx
    /\ store = [c \in CacheKeys |-> NoObj]
    /\ reqs = <<>>
    /\ inflight = {}
    /\ backendRequests = 0
    /\ docker = VarnishStarted

\* the 5xx set-ups include a backend that was closed: its fetches fail
Next5xx ==
    \/ Next
    \/ \E i \in DOMAIN reqs : FetchFails(i)

Spec5xx == Init5xx /\ [][Next5xx]_vars

\* the same machine started in one of the 304 set-ups
InitRevalidate ==
    /\ now = 0
    /\ profile \in ProfilesRevalidate
    /\ store = [c \in CacheKeys |-> NoObj]
    /\ reqs = <<>>
    /\ inflight = {}
    /\ backendRequests = 0
    /\ docker = VarnishStarted

SpecRevalidate == InitRevalidate /\ [][Next]_vars

\* the same machine started in one of the vcl_recv set-ups
InitRecv ==
    /\ now = 0
    /\ profile \in ProfilesRecv
    /\ store = [c \in CacheKeys |-> NoObj]
    /\ reqs = <<>>
    /\ inflight = {}
    /\ backendRequests = 0
    /\ docker = VarnishStarted

SpecRecv == InitRecv /\ [][Next]_vars

\* the same machine started in one of the grace set-ups, whose handlers
\* count before they sleep
InitGrace ==
    /\ now = 0
    /\ profile \in ProfilesGrace
    /\ store = [c \in CacheKeys |-> NoObj]
    /\ reqs = <<>>
    /\ inflight = {}
    /\ backendRequests = 0
    /\ docker = VarnishStarted

NextGrace ==
    \/ Next
    \/ \E i \in DOMAIN reqs : HandlerStore(i)

SpecGrace == InitGrace /\ [][NextGrace]_vars

\* the same machine started in one of the delivery set-ups
InitDeliver ==
    /\ now = 0
    /\ profile \in ProfilesDeliver
    /\ store = [c \in CacheKeys |-> NoObj]
    /\ reqs = <<>>
    /\ inflight = {}
    /\ backendRequests = 0
    /\ docker = VarnishStarted

SpecDeliver == InitDeliver /\ [][Next]_vars

\* the same machine started in the Cache-Status set-up
InitStatus ==
    /\ now = 0
    /\ profile \in ProfilesStatus
    /\ store = [c \in CacheKeys |-> NoObj]
    /\ reqs = <<>>
    /\ inflight = {}
    /\ backendRequests = 0
    /\ docker = VarnishStarted

SpecStatus == InitStatus /\ [][Next]_vars

\* the same machine started in one of the set-ups of the client headers
InitClient ==
    /\ now = 0
    /\ profile \in ProfilesClient
    /\ store = [c \in CacheKeys |-> NoObj]
    /\ reqs = <<>>
    /\ inflight = {}
    /\ backendRequests = 0
    /\ docker = VarnishStarted

SpecClient == InitClient /\ [][Next]_vars

\* the same machine started in one of the ttl set-ups
InitTtl ==
    /\ now = 0
    /\ profile \in ProfilesTtl
    /\ store = [c \in CacheKeys |-> NoObj]
    /\ reqs = <<>>
    /\ inflight = {}
    /\ backendRequests = 0
    /\ docker = VarnishStarted

SpecTtl == InitTtl /\ [][Next]_vars

\* the same machine started with the Vcl that abandons synchronous fetches
InitAbandon ==
    /\ now = 0
    /\ profile = Abandon5xxOfEveryFetch
    /\ store = [c \in CacheKeys |-> NoObj]
    /\ reqs = <<>>
    /\ inflight = {}
    /\ backendRequests = 0
    /\ docker = VarnishStarted

SpecAbandon == InitAbandon /\ [][Next]_vars

(* ------------------------- StartVarnishInDocker ------------------------ *)

\* os.MkdirTemp and os.WriteFile of default.vcl
WriteVcl(c, ok) ==
    /\ docker.calls[c].pc = "vcl"
    /\ docker' = [docker EXCEPT !.calls[c] =
                     IF ok THEN [@ EXCEPT !.pc = "create"] ELSE ReturnErr(@)]
    /\ UNCHANGED <<now, profile, store, reqs, inflight, backendRequests>>

\* cli.ContainerCreate: the daemon creates a container under a new id
ContainerCreate(c, ok) ==
    /\ docker.calls[c].pc = "create"
    /\ IF ok
       THEN \E id \in ContainerIds :
               /\ docker.containers[id] = "absent"
               /\ docker' = [docker EXCEPT
                                !.containers[id] = "created",
                                !.calls[c] = [@ EXCEPT !.pc = "start", !.id = id]]
       ELSE docker' = [docker EXCEPT !.calls[c] = ReturnErr(@)]
    /\ UNCHANGED <<now, profile, store, reqs, inflight, backendRequests>>

\* cli.ContainerStart(containerResponse.ID)
ContainerStart(c, ok) ==
    /\ docker.calls[c].pc = "start"
    /\ docker' = IF ok
                 THEN [docker EXCEPT
                          !.containers[docker.calls[c].id] = "running",
                          !.calls[c] = [@ EXCEPT !.pc = "logs"]]
                 ELSE [docker EXCEPT !.calls[c] = ReturnErr(@)]
    /\ UNCHANGED <<now, profile, store, reqs, inflight, backendRequests>>

\* cli.ContainerLogs(containerResponse.ID) and the goroutine tailing them
ContainerLogs(c, ok) ==
    /\ docker.calls[c].pc = "logs"
    /\ docker' = [docker EXCEPT !.calls[c] =
                     IF ok THEN [@ EXCEPT !.pc = "inspect"] ELSE ReturnErr(@)]
    /\ UNCHANGED <<now, profile, store, reqs, inflight, backendRequests>>

\* cli.ContainerInspect(containerResponse.ID) and the return of the port
\* and of the function that stops containerResponse.ID
ContainerInspect(c, ok) ==
    /\ docker.calls[c].pc = "inspect"
    /\ docker' = [docker EXCEPT !.calls[c] =
                     IF ok THEN [@ EXCEPT !.pc = "returned", !.ret = "ok",
                                          !.stop = docker.calls[c].id]
                     ELSE ReturnErr(@)]
    /\ UNCHANGED <<now, profile, store, reqs, inflight, backendRequests>>

\* the caller runs the returned function (defer stopFunc()):
\* cli.ContainerStop of the container it names; its error is dropped
stopFunc(c, ok) ==
    /\ docker.calls[c].pc = "returned"
    /\ docker.calls[c].stop # 0
    /\ docker' = [docker EXCEPT
                     !.containers[docker.calls[c].stop] = IF ok THEN "exited" ELSE @,
                     !.calls[c] = [@ EXCEPT !.pc = "stopped", !.stopErr = ~ok]]
    /\ UNCHANGED <<now, profile, store, reqs, inflight, backendRequests>>

\* the calls of StartVarnishInDocker of the tests, none has begun its work
InitDocker ==
    /\ now = 0
    /\ profile = TestNoCacheControl
    /\ store = [c \in CacheKeys |-> NoObj]
    /\ reqs = <<>>
    /\ inflight = {}
    /\ backendRequests = 0
    /\ docker = [containers |-> [id \in ContainerIds |-> "absent"],
                 calls |-> [c \in Callers |-> NewCall]]

NextDocker ==
    \E c \in Callers, ok \in BOOLEAN :
       \/ WriteVcl(c, ok)
       \/ ContainerCreate(c, ok)
       \/ ContainerStart(c, ok)
       \/ ContainerLogs(c, ok)
       \/ ContainerInspect(c, ok)
       \/ stopFunc(c, ok)

SpecDocker == InitDocker /\ [][NextDocker]_vars

(* ------------------------------ retention ------------------------------ *)

\* the retention window of the object is over: ttl, grace and keep elapsed
PastRetention(o, t) == o # NoObj /\ Age(o, t) >= o.ttl + o.grace + o.keep

\* Sweep(): the periodic removal of every object past its retention window
Sweep ==
    /\ \E c \in CacheKeys : PastRetention(store[c], now)
    /\ store' = [c \in CacheKeys |->
                    IF PastRetention(store[c], now) THEN NoObj ELSE store[c]]
    /\ UNCHANGED <<now, profile, reqs, inflight, backendRequests, docker>>

\* the machine with the sweep, started in a set-up with a keep or with a
\* grace window that elapses
InitStore ==
    /\ now = 0
    /\ profile \in { TestConditionalRequestWhenRevalidatingWithEtag,
                     TestNoCachingOf500ErrorInGracePeriodAfter200Request }
    /\ store = [c \in CacheKeys |-> NoObj]
    /\ reqs = <<>>
    /\ inflight = {}
    /\ backendRequests = 0
    /\ docker = VarnishStarted

NextStore ==
    \/ Next
    \/ Sweep

SpecStore == InitStore /\ [][NextStore]_vars

TypeOK ==
    /\ now \in 0..Horizon(profile)
    /\ profile \in Profiles \cup Profiles5xx \cup ProfilesRevalidate
                  \cup ProfilesRecv \cup ProfilesGrace \cup ProfilesDeliver
                  \cup ProfilesStatus \cup ProfilesTtl \cup ProfilesClient
                  \cup {Abandon5xxOfEveryFetch}
    /\ Len(reqs) <= MaxReq
    /\ backendRequests \in 0..MaxReq
    /\ inflight \subseteq DOMAIN reqs
    /\ docker.containers \in [ContainerIds -> {"absent", "created", "running", "exited"}]
    /\ \A c \in Callers :
          /\ docker.calls[c].id \in {0} \cup ContainerIds
          /\ docker.calls[c].stop \in {0, docker.calls[c].id}

(* ------------------------------ properties ----------------------------- *)

Idx == DOMAIN reqs

\* the fetch of request i is running
Running(i) == reqs[i].fstate \in {"run", "loaded", "counted"}

\* the fetch of request i has completed (delivered or abandoned)
Completed(i) == reqs[i].fstate \in {"done", "abandoned", "failed"}

\* request j missed on arrival and found the in-flight fetch of another request
Follower(j) == reqs[j].first = "miss" /\ reqs[j].sub # 0

\* the response of the completed fetch of request i was stored as a
\* cacheable object (no hit-for-miss marker)
StoredCacheable(i) ==
    /\ reqs[i].fstate = "done"
    /\ ~BerespUncacheable(profile, reqs[i].beresp.status,
                          HandlerCC(profile, reqs[i].key))

NoStoreReq(i) ==
    /\ profile = TestHitForMissAndNoRequestCoalescingWhenNoStore
    /\ reqs[i].key = "/"

\* C3 as stated: against a no-store backend every request is answered by
\* its own backend fetch, and each request completes one backend latency
\* after it was sent.
C3_EachCompletesInOneLatency ==
    \A i \in Idx :
        NoStoreReq(i) /\ reqs[i].pc = "done" =>
            /\ reqs[i].fetch # "none" /\ reqs[i].fstate = "done"
            /\ reqs[i].resp = reqs[i].beresp /\ reqs[i].resp.x = i
            /\ reqs[i].doneAt = reqs[i].arrived + sleepTime

\* C3 amended: against a no-store backend no request is answered from the
\* cache or with the response of another request's fetch: every answered
\* request ran its own backend fetch and carries its own X-Response (N
\* fetches for N requests).  The requests are not serialized: each fetch
\* takes one backend latency, a request that did not have to wait completes
\* one latency after it was sent, and a request that waited for the first
\* fetch completes at most two latencies after it was sent, however many
\* requests there are.
C3_NoStoreNotCoalesced ==
    \A i \in Idx :
        NoStoreReq(i) /\ reqs[i].pc = "done" =>
            /\ reqs[i].fetch # "none" /\ reqs[i].fstate = "done"
            /\ reqs[i].resp = reqs[i].beresp /\ reqs[i].resp.x = i
            /\ reqs[i].fdone = reqs[i].fstart + sleepTime
            /\ ~reqs[i].waited => reqs[i].doneAt = reqs[i].arrived + sleepTime
            /\ reqs[i].doneAt <= reqs[i].arrived + 2 * sleepTime

\* three requests, each answered by its own fetch: one that waited for the
\* first fetch and one sent after the marker existed
C3_Witness ==
    /\ Len(reqs) = 3
    /\ \A i \in Idx : NoStoreReq(i) /\ reqs[i].pc = "done" /\ reqs[i].resp.x = i
    /\ reqs[2].waited /\ reqs[2].doneAt = reqs[2].arrived + 2 * sleepTime
    /\ reqs[3].first = "hitmiss"
    /\ reqs[3].doneAt = reqs[3].arrived + sleepTime
    /\ Cardinality({i \in Idx : reqs[i].fstate = "done"}) = 3

\* C4: against the no-store backend, a request that found the first fetch
\* in flight waits while it runs; its own fetch starts when the first fetch
\* completes (never before), one latency after the first fetch started, and
\* it is answered two latencies after the first fetch started; the first
\* request is answered after one latency.
C4_FollowersStartAfterFirstCompletes ==
    \A j \in Idx :
        NoStoreReq(j) =>
            /\ reqs[j].first = "miss" /\ reqs[j].sub = 0 /\ reqs[j].pc = "done" =>
                  reqs[j].doneAt = reqs[j].arrived + sleepTime
            /\ Follower(j) =>
                  LET s == reqs[j].sub IN
                  /\ Running(s) => reqs[j].pc = "wait" /\ reqs[j].fetch = "none"
                  /\ reqs[j].fetch # "none" =>
                        /\ reqs[s].fstate = "done"
                        /\ reqs[j].fstart >= reqs[s].fdone
                        /\ reqs[j].fstart = reqs[s].fstart + sleepTime
                  /\ reqs[j].pc = "done" =>
                        reqs[j].doneAt = reqs[s].fstart + 2 * sleepTime

\* N = 3 requests sent together: the first is answered at L, the other two
\* at 2L (not at L, not at 3L), after three backend fetches
C4_Witness ==
    /\ Len(reqs) = 3
    /\ \A i \in Idx : NoStoreReq(i) /\ reqs[i].arrived = 0 /\ reqs[i].pc = "done"
    /\ reqs[1].doneAt = sleepTime
    /\ reqs[2].sub = 1 /\ reqs[3].sub = 1
    /\ reqs[2].doneAt = 2 * sleepTime /\ reqs[3].doneAt = 2 * sleepTime
    /\ now = 2 * sleepTime
    /\ Cardinality({i \in Idx : reqs[i].fstate = "done"}) = 3

\* the freshness lifetime N a profile gives a 200 response: max-age=N, or
\* the configured default ttl when the response has no cache header
FreshnessLifetime(p) == IF p.cc.maxAge >= 0 THEN p.cc.maxAge ELSE p.DefaultTtl

\* request i for "/" found, on arrival, the object of a 200 response
Saw200(i) ==
    /\ reqs[i].key = "/"
    /\ reqs[i].seen # NoObj
    /\ reqs[i].seen.status = StatusOK

\* age of the object request i found, at the time the request arrived
\* (age a stands for a request sent between a and a+1 seconds after the insertion)
SeenAge(i) == reqs[i].arrived - reqs[i].seen.insertedAt

\* request i was answered at once with the object it found, without a fetch
\* of its own that it would have waited for
ServedFromCache(i) ==
    /\ reqs[i].pc = "done"
    /\ reqs[i].doneAt = reqs[i].arrived
    /\ ~reqs[i].waited
    /\ reqs[i].resp = respOf(reqs[i].seen)

\* request i was not answered on arrival: it blocks on a backend fetch (its
\* own, or the in-flight one it waits for) and is answered with a response
\* fetched after it arrived
BlocksOnFetch(i) ==
    /\ reqs[i].fetch # "bg"
    /\ reqs[i].fetch = "none" => reqs[i].waited
    /\ reqs[i].pc = "done" =>
          /\ reqs[i].resp.x # reqs[i].seen.x
          /\ reqs[i].fetch # "none" =>
                /\ reqs[i].resp = reqs[i].beresp
                /\ reqs[i].resp.x = i
                /\ reqs[i].doneAt = reqs[i].fdone

\* C5: with freshness lifetime N (max-age=N, or the default ttl without a
\* cache header) and no grace, a request at t < N after the insertion is a
\* hit answered from the cache without a backend fetch, and a request at
\* t > N is a miss that blocks on a backend fetch and returns the new
\* response.
C5_FreshThenMiss ==
    \A i \in Idx :
        /\ profile \in {TestNoCacheControl, TestCacheControlMaxAge1}
        /\ Saw200(i)
        => /\ SeenAge(i) < FreshnessLifetime(profile) =>
                 /\ reqs[i].first = "hit"
                 /\ ServedFromCache(i)
                 /\ reqs[i].fetch = "none"
           /\ SeenAge(i) >= FreshnessLifetime(profile) =>
                 /\ reqs[i].first = "miss"
                 /\ BlocksOnFetch(i)

\* max-age=1: the second request is a hit on the first response, the third,
\* sent after the lifetime, is answered by its own fetch (two backend requests)
C5_Witness ==
    /\ profile = TestCacheControlMaxAge1
    /\ Len(reqs) = 3
    /\ \A i \in Idx : reqs[i].key = "/" /\ reqs[i].pc = "done"
    /\ reqs[2].first = "hit" /\ reqs[2].resp.x = 1 /\ reqs[2].fetch = "none"
    /\ SeenAge(3) >= 1 /\ reqs[3].seen.x = 1
    /\ reqs[3].fetch = "sync" /\ reqs[3].resp.x = 3
    /\ backendRequests = 2

\* C6: with max-age=1, stale-while-revalidate=10, a request at 1 < t < 11
\* is answered with the stale object at once, before the background fetch
\* it triggered completes; that fetch replaces the object, so a request sent
\* after it completed sees the refreshed response; a request at t > 11
\* blocks on a synchronous fetch.
C6_StaleWhileRevalidate ==
    \A i \in Idx :
        profile = TestStaleWhileRevalidate /\ Saw200(i) =>
           /\ /\ SeenAge(i) >= profile.cc.maxAge
              /\ SeenAge(i) < profile.cc.maxAge + profile.cc.swr
              => /\ reqs[i].first = "grace"
                 /\ ServedFromCache(i)
                 /\ reqs[i].sub = 0 => reqs[i].fetch = "bg"
                 /\ reqs[i].fetch = "bg" =>
                       /\ reqs[i].fstart = reqs[i].doneAt
                       /\ reqs[i].fstate = "done" =>
                             /\ reqs[i].fdone =
                                  reqs[i].doneAt + HandlerSleep(profile, "/", i)
                             /\ \A j \in Idx :
                                   /\ reqs[j].key = "/"
                                   /\ reqs[j].arrived > reqs[i].fdone
                                   => /\ reqs[j].seen.x # reqs[i].seen.x
                                      /\ reqs[j].seen.insertedAt >= reqs[i].fdone
           /\ SeenAge(i) >= profile.cc.maxAge + profile.cc.swr =>
                 /\ reqs[i].first = "miss"
                 /\ BlocksOnFetch(i)

\* request 2 was answered with the stale response 1 one second before its
\* background fetch completed; request 3, sent more than 11s after the
\* refreshed object 2 was inserted, found object 2 and blocked on its own fetch
C6_Witness ==
    /\ profile = TestStaleWhileRevalidate
    /\ Len(reqs) = 3
    /\ \A i \in Idx : reqs[i].key = "/" /\ reqs[i].pc = "done"
    /\ reqs[2].first = "grace" /\ reqs[2].resp.x = 1
    /\ reqs[2].fetch = "bg" /\ reqs[2].fstate = "done"
    /\ reqs[2].fdone > reqs[2].doneAt
    /\ reqs[3].seen.x = 2 /\ SeenAge(3) >= 11
    /\ reqs[3].fetch = "sync" /\ reqs[3].resp.x = 3
    /\ reqs[3].doneAt >= reqs[3].arrived

\* the background fetches of key k that are running
BgFetches(k) ==
    {i \in Idx : reqs[i].key = k /\ reqs[i].fetch = "bg" /\ Running(i)}

\* C7: at most one background fetch per key runs at any time; a request
\* that finds the object stale within grace while a fetch for the key is in
\* flight is answered with the stale object and starts no fetch.
C7_OneBackgroundFetchPerKey ==
    /\ \A k \in Keys : Cardinality(BgFetches(k)) <= 1
    /\ \A i \in Idx :
          reqs[i].first = "grace" /\ reqs[i].sub # 0 =>
              /\ ServedFromCache(i)
              /\ reqs[i].fetch = "none"

\* requests 2 and 3 both found object 1 stale; request 2 started the
\* background fetch, request 3 found it in flight and started none
C7_Witness ==
    /\ Len(reqs) = 3
    /\ reqs[2].first = "grace" /\ reqs[2].fetch = "bg" /\ Running(2)
    /\ reqs[3].first = "grace" /\ reqs[3].sub = 2
    /\ reqs[3].pc = "done" /\ reqs[3].resp.x = 1 /\ reqs[3].fetch = "none"
    /\ BgFetches("/") = {2}

\* the background fetch of request i completes in this step
BgCompletes(i) ==
    /\ reqs[i].fetch = "bg"
    /\ Running(i)
    /\ reqs'[i].fstate \in {"done", "abandoned"}

\* the status the backend answers the fetch of request i with
FetchStatus(i) == HandlerStatus(profile, reqs[i].key, reqs[i].xStatusCode)

\* request i arrived inside the grace window of the 200 object it found
InGraceOf200(i) ==
    /\ Saw200(i)
    /\ ~reqs[i].seen.uncacheable
    /\ SeenAge(i) >= reqs[i].seen.ttl
    /\ SeenAge(i) < reqs[i].seen.ttl + reqs[i].seen.grace

\* C8: with the hook that abandons 5xx answers to background fetches, the
\* completion of such a fetch leaves the store as it is (the fetch ends
\* abandoned, nothing is evicted or overwritten), and every request inside
\* the grace window of the cached 200 object is answered with that object
\* and starts its own background fetch (unless one is in flight).
C8_AbandonKeepsObject ==
    /\ [][ profile = TestAbandon5xxResponseInGracePeriodWhen2xxCached =>
             \A i \in Idx :
                 BgCompletes(i) /\ FetchStatus(i) >= 500 =>
                     /\ reqs'[i].fstate = "abandoned"
                     /\ store' = store ]_vars
    /\ [](profile = TestAbandon5xxResponseInGracePeriodWhen2xxCached =>
             \A i \in Idx :
                 InGraceOf200(i) =>
                     /\ ServedFromCache(i)
                     /\ reqs[i].resp.status = StatusOK
                     /\ reqs[i].sub = 0 => reqs[i].fetch = "bg")

\* one 200 request and two stale requests asking for a 500: both stale
\* requests got the 200 of request 1, both background fetches were
\* abandoned, object 1 is still stored, three backend requests
C8_Witness ==
    /\ profile = TestAbandon5xxResponseInGracePeriodWhen2xxCached
    /\ Len(reqs) = 3
    /\ \A i \in Idx : reqs[i].key = "/"
    /\ reqs[1].fetch = "sync" /\ reqs[1].resp = [status |-> StatusOK, x |-> 1]
    /\ \A i \in {2, 3} :
          /\ reqs[i].xStatusCode = StatusInternalServerError
          /\ reqs[i].first = "grace"
          /\ reqs[i].resp = [status |-> StatusOK, x |-> 1]
          /\ reqs[i].fstate = "abandoned"
    /\ reqs[3].fstart >= reqs[2].fdone
    /\ store["/"].x = 1 /\ store["/"].status = StatusOK
    /\ backendRequests = 3

\* C9 as stated: under the default policy a 500 answer to the background
\* revalidation of a cached object leaves that object in the store, so that
\* it stays servable for the rest of its grace window.
C9_GraceNotBrokenBy500 ==
    [][ profile.Vcl = "builtin" =>
          \A i \in Idx :
              BgCompletes(i) /\ FetchStatus(i) >= 500 =>
                  store'[reqs[i].key] = store[reqs[i].key] ]_vars

\* C9 amended: under the default policy a 500 answer to the background
\* revalidation of a cached 200 object ends the grace of that object: the
\* request that triggered the revalidation was answered with the 200, but
\* when the revalidation completes the 200 object is replaced by a
\* hit-for-miss marker of the 500 and is not servable any more.
C9_GraceEndsWith500 ==
    [][ profile.Vcl = "builtin" =>
          \A i \in Idx :
              BgCompletes(i) /\ FetchStatus(i) >= 500 =>
                  LET k == reqs[i].key IN
                  /\ store[k].status = StatusOK /\ ~store[k].uncacheable
                  /\ reqs[i].resp = respOf(store[k])
                  /\ reqs'[i].fstate = "done"
                  /\ store'[k].uncacheable
                  /\ store'[k].status = FetchStatus(i)
                  /\ Lookup(store'[k], now') = "hitmiss" ]_vars

\* inside the grace window of object 1 the store holds the marker of the
\* 500 that the background revalidation of request 2 received
C9_Witness ==
    /\ profile.Vcl = "builtin"
    /\ Len(reqs) >= 2
    /\ reqs[1].beresp = [status |-> StatusOK, x |-> 1]
    /\ reqs[2].first = "grace" /\ reqs[2].resp = [status |-> StatusOK, x |-> 1]
    /\ reqs[2].fetch = "bg" /\ reqs[2].fstate = "done"
    /\ reqs[2].beresp.status = StatusInternalServerError
    /\ store["/"].uncacheable /\ store["/"].x = 2
    /\ now - reqs[1].fdone < reqs[2].seen.ttl + reqs[2].seen.grace

\* C10: default policy, default ttl 1s, default grace 5s.  A request inside
\* the grace of the 200 object is answered with the 200 whatever status the
\* backend would give it; a request that finds the marker left by a 500
\* runs its own backend fetch and returns that fetch's response; a 500 is
\* never answered from the cache; and once a background revalidation has
\* received a 500, later requests are not answered with the old 200.
C10_No500CachedAfterRevalidation ==
    profile = TestNoCachingOf500ErrorInGracePeriodAfter200Request =>
        \A i \in Idx :
            reqs[i].key = "/" =>
               /\ InGraceOf200(i) =>
                     /\ reqs[i].first = "grace"
                     /\ ServedFromCache(i)
                     /\ reqs[i].resp.status = StatusOK
               /\ reqs[i].seen.uncacheable =>
                     /\ reqs[i].fetch = "hitmiss"
                     /\ reqs[i].pc = "done" =>
                           /\ reqs[i].resp = reqs[i].beresp
                           /\ reqs[i].resp = [status |-> reqs[i].xStatusCode, x |-> i]
               /\ reqs[i].pc = "done"
                     /\ reqs[i].resp.status = StatusInternalServerError =>
                     /\ reqs[i].resp.x = i
                     /\ reqs[i].fetch \in {"sync", "hitmiss"}
               /\ /\ reqs[i].fetch = "bg" /\ reqs[i].fstate = "done"
                  /\ reqs[i].beresp.status = StatusInternalServerError
                  => \A j \in Idx :
                        /\ reqs[j].key = "/" /\ reqs[j].pc = "done"
                        /\ reqs[j].arrived > reqs[i].fdone
                        => reqs[j].resp.x # reqs[i].seen.x

\* 200, then a stale request answered 200 whose revalidation got 500, then
\* a request answered by its own fetch with its own 500: three backend
\* requests for three requests
C10_Witness ==
    /\ profile = TestNoCachingOf500ErrorInGracePeriodAfter200Request
    /\ Len(reqs) = 3
    /\ \A i \in Idx : reqs[i].key = "/" /\ reqs[i].pc = "done"
    /\ reqs[1].resp = [status |-> StatusOK, x |-> 1]
    /\ reqs[2].xStatusCode = StatusInternalServerError
    /\ reqs[2].resp = [status |-> StatusOK, x |-> 1]
    /\ reqs[2].fetch = "bg" /\ reqs[2].fstate = "done"
    /\ reqs[3].seen.x = 2 /\ reqs[3].seen.uncacheable
    /\ reqs[3].resp = [status |-> StatusInternalServerError, x |-> 3]
    /\ backendRequests = 3

RuleTtl(p, status, cc) ==
    IF VclSetsTtlGrace(p, status) THEN VclSetTtl ELSE BerespTtl(p, StatusOK, cc)

\* request i found the 500 object of the hook that sets ttl and grace
Saw500OfTtlVcl(i) ==
    /\ profile = TestTtlOn5xxBackendResponseIsNotAutomaticallyHitForMiss
    /\ reqs[i].key = "/"
    /\ reqs[i].seen.status = StatusInternalServerError

MarkedUncacheableReq(i) ==
    /\ profile = TestExplicitMarkingAsUncacheableOn5xxBackendResponseIsHitForMiss
    /\ reqs[i].key = "/"

\* C13: a response the backend-response hook marks uncacheable is stored as
\* a hit-for-miss marker although the hook gave it ttl 1s and grace 10s: the
\* store never holds it as an object, a request inside the ttl finds the
\* marker, and every request is answered by its own backend fetch with that
\* fetch's response, never from the cache.
C13_MarkedUncacheableIsHitForMiss ==
    /\ profile = TestExplicitMarkingAsUncacheableOn5xxBackendResponseIsHitForMiss
          /\ store["/"] # NoObj =>
          /\ store["/"].uncacheable
          /\ store["/"].ttl = VclSetTtl
    /\ \A i \in Idx :
          MarkedUncacheableReq(i) =>
              /\ reqs[i].seen # NoObj /\ SeenAge(i) < VclSetTtl =>
                    reqs[i].first = "hitmiss"
              /\ reqs[i].pc = "done" =>
                    /\ reqs[i].fetch \in {"sync", "hitmiss"}
                    /\ reqs[i].fstate = "done"
                    /\ reqs[i].resp = reqs[i].beresp
                    /\ reqs[i].resp = [status |-> StatusInternalServerError, x |-> i]

\* the run of the test: request 2 finds the marker of request 1 inside the
\* ttl and is answered by its own fetch; two backend requests
C13_Witness ==
    /\ Len(reqs) = 2
    /\ \A i \in Idx : MarkedUncacheableReq(i)
    /\ reqs[1].resp = [status |-> StatusInternalServerError, x |-> 1]
    /\ reqs[2].seen.x = 1 /\ reqs[2].seen.uncacheable
    /\ reqs[2].arrived - reqs[2].seen.insertedAt < VclSetTtl
    /\ reqs[2].resp = [status |-> StatusInternalServerError, x |-> 2]
    /\ backendRequests = 2

\* request i for "/" against a backend that sets a validator
ValidatorReq(i) == profile.validator # "none" /\ reqs[i].key = "/"

\* the validators of object o as a conditional request carries them
ValidatorsOf(o) == [ifNoneMatch |-> o.etag, ifModifiedSince |-> o.lastModified]

\* request i arrived when the object it found was stale but still kept
InKeepOfSeen(i) ==
    /\ reqs[i].seen # NoObj /\ ~reqs[i].seen.uncacheable
    /\ SeenAge(i) >= reqs[i].seen.ttl + reqs[i].seen.grace
    /\ SeenAge(i) < reqs[i].seen.ttl + reqs[i].seen.grace + reqs[i].seen.keep

\* C14: with an ETag or Last-Modified validator: a fetch started with no
\* kept object is unconditional; a fetch is conditional only with the
\* validator of the stale object it revalidates (If-None-Match for an ETag,
\* If-Modified-Since for Last-Modified); a request that finds the object
\* stale within keep fetches synchronously with that validator; when the
\* backend answers 304 the client gets status 200, the body the object was
\* inserted with and the X-Response of the 304; and the object is fresh
\* again: a request within the new ttl is a hit with that body and no fetch.
C14_ConditionalRevalidation ==
    \A i \in Idx :
        ValidatorReq(i) =>
            /\ reqs[i].fetch # "none" /\ reqs[i].seen = NoObj /\ ~reqs[i].waited =>
                  reqs[i].cond = NoCond
            /\ reqs[i].cond # NoCond =>
                  /\ reqs[i].stale # NoObj
                  /\ reqs[i].cond = ValidatorsOf(reqs[i].stale)
                  /\ profile.validator = "etag" =>
                        reqs[i].cond = [ifNoneMatch |-> "1234", ifModifiedSince |-> ""]
                  /\ profile.validator = "lastModified" =>
                        reqs[i].cond = [ifNoneMatch |-> "", ifModifiedSince |-> "lastModified"]
            /\ InKeepOfSeen(i) /\ reqs[i].sub = 0 =>
                  /\ reqs[i].first = "miss" /\ reqs[i].fetch = "sync"
                  /\ reqs[i].cond = ValidatorsOf(reqs[i].seen)
                  /\ reqs[i].cond # NoCond
            /\ reqs[i].fstate = "done"
                  /\ reqs[i].beresp.status = StatusNotModified =>
                  /\ reqs[i].cond # NoCond
                  /\ reqs[i].resp = [status |-> StatusOK, x |-> i]
                  /\ reqs[i].body = reqs[i].stale.body
                  /\ reqs[i].body = reqs[reqs[i].stale.x].body
                  /\ reqs[i].body = "foo"
            /\ \A j \in Idx :
                  /\ reqs[j].key = "/" /\ reqs[j].seen.x = i
                  /\ reqs[i].beresp.status = StatusNotModified
                  /\ SeenAge(j) < profile.DefaultTtl
                  => /\ reqs[j].first = "hit"
                     /\ ServedFromCache(j) /\ reqs[j].fetch = "none"
                     /\ reqs[j].resp = [status |-> StatusOK, x |-> i]
                     /\ reqs[j].body = reqs[i].body

\* the run of the test: an unconditional fetch answered 200 "foo", after
\* the ttl a fetch with If-None-Match answered 304 and delivered as 200
\* "foo" with X-Response 2, then a hit on the refreshed object; two backend
\* requests
C14_Witness ==
    /\ profile = TestConditionalRequestWhenRevalidatingWithEtag
    /\ Len(reqs) = 3
    /\ \A i \in Idx : reqs[i].key = "/" /\ reqs[i].pc = "done"
    /\ reqs[1].cond = NoCond
    /\ reqs[1].resp = [status |-> StatusOK, x |-> 1] /\ reqs[1].body = "foo"
    /\ reqs[2].arrived >= 1
    /\ reqs[2].cond = [ifNoneMatch |-> "1234", ifModifiedSince |-> ""]
    /\ reqs[2].beresp.status = StatusNotModified
    /\ reqs[2].resp = [status |-> StatusOK, x |-> 2] /\ reqs[2].body = "foo"
    /\ reqs[3].first = "hit" /\ reqs[3].fetch = "none"
    /\ reqs[3].resp = [status |-> StatusOK, x |-> 2] /\ reqs[3].body = "foo"
    /\ backendRequests = 2

\* the fetch of request i completes in this step (delivered, abandoned
\* or failed)
FetchCompletes(i) ==
    Running(i) /\ ~(reqs'[i].fstate \in {"run", "loaded", "counted"})

\* the backend answers the fetch of request i, which carried no validator,
\* with 304 in this step
Gets304Unconditional(i) ==
    /\ FetchCompletes(i)
    /\ reqs'[i].beresp.status = StatusNotModified
    /\ reqs[i].cond = NoCond

\* C15: a 304 the backend gives to a fetch that carried no validator is a
\* backend error and never a revalidation: the fetch fails, the store is
\* left as it was and the client of the fetch is answered 503.  Against a
\* backend that answers every request with 304 nothing is ever stored, and
\* every answered request got the 503 of its own, single backend fetch.
C15_304WithoutValidatorIsError ==
    /\ [][ \A i \in Idx :
             Gets304Unconditional(i) =>
                 /\ reqs'[i].fstate = "failed"
                 /\ store' = store
                 /\ reqs[i].fetch # "bg" =>
                       /\ reqs'[i].pc = "done"
                       /\ reqs'[i].resp.status = StatusServiceUnavailable ]_vars
    /\ [](profile = TestBackendRespondsWith304WhenUnconditionalRequest =>
             /\ store["/"] = NoObj
             /\ \A i \in Idx :
                   reqs[i].key = "/" /\ reqs[i].pc = "done" =>
                       /\ reqs[i].resp = ErrorResp
                       /\ reqs[i].fetch = "sync"
                       /\ reqs[i].cond = NoCond
                       /\ reqs[i].fstate = "failed"
                       /\ reqs[i].beresp.status = StatusNotModified)

\* the run of the test: one request, one backend request answered 304, the
\* client got 503 and nothing is stored
C15_Witness ==
    /\ profile = TestBackendRespondsWith304WhenUnconditionalRequest
    /\ Len(reqs) = 1
    /\ reqs[1].key = "/" /\ reqs[1].pc = "done"
    /\ reqs[1].beresp.status = StatusNotModified
    /\ reqs[1].resp = [status |-> StatusServiceUnavailable, x |-> 0]
    /\ store["/"] = NoObj
    /\ backendRequests = 1

\* C16: a status the backend actually sent is a normal response, a 503
\* included: the fetch does not fail, vcl_backend_error does not run, and
\* the client of the fetch gets the backend's status, X-Response and body,
\* not the synthetic response.  A fetch fails only when the backend cannot
\* be reached (or answers an unconditional fetch with 304).
C16_ReceivedStatusIsNoBackendError ==
    \A i \in Idx :
        /\ reqs[i].beresp # NoResp /\ reqs[i].beresp.status # StatusNotModified =>
              /\ reqs[i].fstate \in {"done", "abandoned"}
              /\ reqs[i].fetch # "bg" =>
                    /\ reqs[i].pc = "done"
                    /\ reqs[i].resp = reqs[i].beresp
                    /\ reqs[i].body = HandlerBody(profile, reqs[i].key, reqs[i].tmp)
                    /\ reqs[i].body # VclBackendError(profile)
        /\ reqs[i].fstate = "failed" =>
              ~BackendUp(profile) \/ reqs[i].beresp.status = StatusNotModified
        /\ profile = Test503FromBackendIsNotVclBackendError
              /\ reqs[i].key = "/" /\ reqs[i].pc = "done" =>
              /\ reqs[i].resp = [status |-> StatusServiceUnavailable, x |-> i]
              /\ reqs[i].body = ""

\* the run of the test: the backend's 503 with X-Response 1 and an empty
\* body reached the client, one backend request
C16_Witness ==
    /\ profile = Test503FromBackendIsNotVclBackendError
    /\ Len(reqs) = 1
    /\ reqs[1].key = "/" /\ reqs[1].fstate = "done"
    /\ reqs[1].resp = [status |-> StatusServiceUnavailable, x |-> 1]
    /\ reqs[1].body = ""
    /\ backendRequests = 1

\* C17: when the backend cannot be reached the fetch is a backend fetch
\* error: the handler never runs (no backend request is counted, no backend
\* response exists), the fetch fails, nothing is stored, and the client
\* gets the synthetic 503 with the body vcl_backend_error made.
C17_NoConnectionIsBackendError ==
    profile = TestNoConnectionToBackendIsVclBackendError =>
        /\ backendRequests = 0
        /\ \A k \in Keys : store[k] = NoObj
        /\ \A i \in Idx :
              /\ reqs[i].fstate \notin {"loaded", "counted", "done", "abandoned"}
              /\ reqs[i].beresp = NoResp
              /\ reqs[i].pc = "done" =>
                    /\ reqs[i].fstate = "failed"
                    /\ reqs[i].resp = [status |-> StatusServiceUnavailable, x |-> 0]
                    /\ reqs[i].body = "ERROR: 503 Backend fetch failed"

\* the run of the test: the request sent after the backend was closed got
\* the synthetic 503 with the body of the hook
C17_Witness ==
    /\ profile = TestNoConnectionToBackendIsVclBackendError
    /\ Len(reqs) = 1
    /\ reqs[1].key = "/" /\ reqs[1].pc = "done" /\ reqs[1].fstate = "failed"
    /\ reqs[1].resp = [status |-> StatusServiceUnavailable, x |-> 0]
    /\ reqs[1].body = "ERROR: 503 Backend fetch failed"
    /\ backendRequests = 0

\* request i is Pass: not GET or HEAD, or with Authorization or Cookie, or
\* vcl_recv of the set-up returns pass for it
IsPass(i) ==
    \/ reqs[i].hdr.method \notin {"GET", "HEAD"}
    \/ reqs[i].hdr.authorization # 0
    \/ reqs[i].hdr.cookie # 0
    \/ profile = TestReturnPassInVclRecvBypassesTheCache /\ reqs[i].key = "/"

\* C18: a Pass request always goes to the backend on its own: it does not
\* look the key up, does not wait for a fetch in flight and registers none,
\* the backend gets its method, Authorization and Cookie as the client
\* sent them, it is answered with the response of its own fetch, and that
\* response is never stored (k Pass requests, k backend fetches).
C18_PassAlwaysFetches ==
    \A i \in Idx :
        IsPass(i) =>
            /\ reqs[i].first = "pass"
            /\ reqs[i].fetch = "pass"
            /\ ~reqs[i].waited
            /\ i \notin inflight
            /\ reqs[i].bereq = reqs[i].hdr
            /\ reqs[i].pc = "done" =>
                  /\ reqs[i].fstate = "done"
                  /\ reqs[i].resp = reqs[i].beresp
                  /\ reqs[i].resp.x = i
            /\ store[reqs[i].key].x # i

\* a GET was answered 200 and cached; inside its ttl two POST requests were
\* each answered by their own fetch, the cached object is still the GET's;
\* three backend requests
C18_Witness ==
    /\ profile = TestNoCachingOfPost
    /\ Len(reqs) = 3
    /\ now < profile.DefaultTtl
    /\ \A i \in Idx : reqs[i].key = "/" /\ reqs[i].pc = "done"
    /\ ~IsPass(1) /\ reqs[1].resp = [status |-> StatusOK, x |-> 1]
    /\ \A i \in {2, 3} :
          /\ reqs[i].hdr.method = "POST"
          /\ reqs[i].seen.x = 1 /\ ~reqs[i].seen.uncacheable
          /\ reqs[i].resp = [status |-> StatusOK, x |-> i]
    /\ store["/"].x = 1
    /\ backendRequests = 3

\* request i for "/" found a cacheable object while vcl_recv sets req.grace
CappedReq(i) ==
    /\ VclRecvGrace(profile) >= 0
    /\ reqs[i].key = "/"
    /\ reqs[i].seen # NoObj /\ ~reqs[i].seen.uncacheable

\* the grace in effect for the object request i found
EffectiveGrace(i) == Min(reqs[i].seen.grace, VclRecvGrace(profile))

\* C19: when vcl_recv set req.grace = 1s the grace in effect is
\* min(grace, 1s), whether the object's grace of 10s came from
\* vcl_backend_response or from stale-while-revalidate; the ttl is not
\* capped.  A request inside ttl + min(grace, 1s) is a stale hit answered at
\* once (with a background fetch unless one is in flight), a request later
\* than that is a miss although the object's own grace of 10s has not
\* ended: it blocks on its own synchronous fetch, or waits for the fetch in
\* flight, and is not answered with the object it found.
C19_ReqGraceCapsGrace ==
    \A i \in Idx :
        CappedReq(i) =>
            LET o == reqs[i].seen IN
            /\ o.grace = VclSetGrace
            /\ o.ttl = VclTtl(profile, StatusOK, profile.cc)
            /\ EffectiveGrace(i) = 1
            /\ SeenAge(i) < o.ttl => reqs[i].first = "hit"
            /\ SeenAge(i) >= o.ttl /\ SeenAge(i) < o.ttl + EffectiveGrace(i) =>
                  /\ reqs[i].first = "grace"
                  /\ ServedFromCache(i)
                  /\ reqs[i].sub = 0 => reqs[i].fetch = "bg"
            /\ SeenAge(i) >= o.ttl + EffectiveGrace(i) =>
                  /\ reqs[i].first = "miss"
                  /\ reqs[i].sub = 0 => reqs[i].fetch = "sync" /\ BlocksOnFetch(i)
                  /\ reqs[i].sub # 0 => reqs[i].waited
                  /\ reqs[i].pc = "done" => reqs[i].resp.x # o.x

\* the run of the test with ttl 100ms and beresp.grace 10s: request 2 is a
\* stale hit whose background fetch stored object 2, request 3 comes more
\* than 1s after the ttl of object 2 ended and is answered by its own
\* fetch; three backend requests
C19_Witness ==
    /\ profile = TestSettingReqGraceInVclRecvIsUpperCapForBerespGraceInVclBackendResponse
    /\ Len(reqs) = 3
    /\ \A i \in Idx : reqs[i].key = "/" /\ reqs[i].pc = "done"
    /\ reqs[1].resp = [status |-> StatusOK, x |-> 1]
    /\ reqs[2].first = "grace" /\ reqs[2].resp = [status |-> StatusOK, x |-> 1]
    /\ reqs[2].fetch = "bg" /\ reqs[2].fstate = "done"
    /\ reqs[3].seen.x = 2 /\ reqs[3].seen.grace = VclSetGrace
    /\ reqs[3].arrived - reqs[3].seen.insertedAt >= 1
    /\ reqs[3].first = "miss" /\ reqs[3].fetch = "sync"
    /\ reqs[3].resp = [status |-> StatusOK, x |-> 3]
    /\ backendRequests = 3

\* request i for "/" found the object of a max-age=1,
\* stale-while-revalidate=10 response while vcl_recv sets req.grace = 1s
SwrCappedReq(i) ==
    /\ profile = TestSettingReqGraceInVclRecvIsUpperCapForSwrOfBackendResponse
    /\ reqs[i].key = "/"
    /\ reqs[i].seen # NoObj /\ ~reqs[i].seen.uncacheable

\* C20: req.grace = 1s and a response with max-age=1,
\* stale-while-revalidate=10: the object carries ttl 1s and grace 10s; a
\* request between 1s and 2s after the insertion (t=1.2s) is a stale hit
\* answered at once, a request 2s or more after it (t=2.4s) is a miss that
\* blocks on a backend fetch.
C20_SwrCappedByReqGrace ==
    \A i \in Idx :
        SwrCappedReq(i) =>
            /\ reqs[i].seen.ttl = 1 /\ reqs[i].seen.grace = 10
            /\ SeenAge(i) = 1 =>
                  /\ reqs[i].first = "grace"
                  /\ reqs[i].pc = "done" /\ reqs[i].doneAt = reqs[i].arrived
                  /\ reqs[i].resp = respOf(reqs[i].seen)
            /\ SeenAge(i) >= 2 =>
                  /\ reqs[i].first = "miss"
                  /\ reqs[i].fetch = "none" => reqs[i].waited
                  /\ reqs[i].fetch # "none" => reqs[i].fetch = "sync"
                  /\ reqs[i].pc = "done" => reqs[i].resp.x # reqs[i].seen.x

\* the run of the test: the object of request 1 answers request 2 at age 1;
\* request 3 finds the refreshed object at age 2 and is answered by its own
\* fetch; three backend requests
C20_Witness ==
    /\ profile = TestSettingReqGraceInVclRecvIsUpperCapForSwrOfBackendResponse
    /\ Len(reqs) = 3
    /\ \A i \in Idx : reqs[i].key = "/" /\ reqs[i].pc = "done"
    /\ reqs[2].seen.x = 1 /\ reqs[2].arrived - reqs[2].seen.insertedAt = 1
    /\ reqs[2].resp = [status |-> StatusOK, x |-> 1]
    /\ reqs[2].doneAt = reqs[2].arrived
    /\ reqs[3].seen.x = 2 /\ reqs[3].arrived - reqs[3].seen.insertedAt = 2
    /\ reqs[3].fetch = "sync"
    /\ reqs[3].resp = [status |-> StatusOK, x |-> 3]
    /\ backendRequests = 3

\* request i for "/" found a cacheable object while vcl_recv sets req.ttl
ReqTtlReq(i) ==
    /\ VclRecvTtl(profile) >= 0
    /\ reqs[i].key = "/"
    /\ reqs[i].seen # NoObj /\ ~reqs[i].seen.uncacheable

\* C21: req.ttl = 0s of vcl_recv does not cap the ttl of the stored object:
\* with beresp.ttl = 10s set in vcl_backend_response the object has ttl 10s,
\* a request inside 10s after the insertion is a hit answered from the
\* cache without a backend fetch, so that only the one fetch that stored the
\* object has reached the backend by then.
C21_ReqTtlDoesNotCapTtl ==
    \A i \in Idx :
        ReqTtlReq(i) =>
            /\ reqs[i].seen.ttl = VclSetTtl10s
            /\ SeenAge(i) < VclSetTtl10s =>
                  /\ reqs[i].first = "hit"
                  /\ ServedFromCache(i)
                  /\ reqs[i].fetch = "none"
            /\ (now < VclSetTtl10s /\ reqs[i].seen.insertedAt = 0) =>
                  Cardinality({j \in Idx : reqs[j].key = "/" /\ reqs[j].fetch # "none"}) = 1

\* the run of the test: the second request, inside 10s, is answered with
\* the response of the first; one backend request
C21_Witness ==
    /\ profile = TestSettingReqTtlInVclRecvIsNoUpperCapForBerespTtlInVclBackendResponse
    /\ Len(reqs) >= 2
    /\ \A i \in {1, 2} : reqs[i].key = "/" /\ reqs[i].pc = "done"
    /\ reqs[1].fetch = "sync" /\ reqs[1].resp = [status |-> StatusOK, x |-> 1]
    /\ reqs[2].arrived < VclSetTtl10s
    /\ reqs[2].first = "hit" /\ reqs[2].fetch = "none"
    /\ reqs[2].resp = [status |-> StatusOK, x |-> 1]
    /\ backendRequests = 1

\* request i for "/" found the object of a 200 response in one of the
\* set-ups whose response has stale-while-revalidate without a duration or
\* stale-while-revalidate=0
GraceSourceReq(i) ==
    /\ profile \in
          { TestStaleWhileRevalidateWithoutDurationWhenZeroDefaultGrace,
            TestStaleWhileRevalidateWithoutDurationWhenNonZeroDefaultGrace,
            TestStaleWhileRevalidateZeroDoesNotMeanDefaultGrace }
    /\ Saw200(i)

GraceOnly(p, status) ==
    /\ BerespTtl(p, status, p.cc) = 0
    /\ BerespGrace(p, p.cc) > 0
    /\ ~(p.cc.private \/ p.cc.noStore \/ p.cc.noCache)

\* request i for "/" found the grace-only object of a set-up whose
\* vcl_backend_response raises the ttl of 0
GraceOnlyReq(i) ==
    /\ reqs[i].key = "/"
    /\ reqs[i].seen # NoObj
    /\ GraceOnly(profile, reqs[i].seen.status)
    /\ profile.Vcl = "tinyTtlForSwr"

\* C23 as stated: whenever the ttl of a response computes to 0, its grace
\* is not zero and it is not private, no-store or no-cache, the response of
\* a completed fetch is stored as an object that is kept for the grace
\* duration.
C23_GraceOnlyAlwaysStored ==
    \A i \in Idx :
        /\ reqs[i].key = "/" /\ reqs[i].fstate = "done"
        /\ GraceOnly(profile, reqs[i].beresp.status)
        => StoredCacheable(i)

\* C23 amended: when the ttl of a response computes to 0, its grace is not
\* zero, it is not private, no-store or no-cache, and vcl_backend_response
\* raises the ttl to a minimal value above zero, the object is stored for
\* the grace duration: a request inside the grace window is answered at
\* once with the stale object (with a background fetch unless one is in
\* flight), a request after the grace window is a miss that is not answered
\* with the object it found: it blocks on its own synchronous fetch or
\* waits for the fetch in flight.
C23_GraceOnlyRetention ==
    \A i \in Idx :
        GraceOnlyReq(i) =>
            LET o == reqs[i].seen IN
            /\ ~o.uncacheable
            /\ o.ttl = 0 /\ o.grace = profile.cc.swr
            /\ SeenAge(i) < o.grace =>
                  /\ reqs[i].first = "grace"
                  /\ ServedFromCache(i)
                  /\ reqs[i].sub = 0 => reqs[i].fetch = "bg"
            /\ SeenAge(i) >= o.grace =>
                  /\ reqs[i].first = "miss"
                  /\ reqs[i].sub = 0 => reqs[i].fetch = "sync" /\ BlocksOnFetch(i)
                  /\ reqs[i].sub # 0 => reqs[i].waited
                  /\ reqs[i].pc = "done" => reqs[i].resp.x # o.x

\* the run of the test: request 2, inside the grace of 1s, is answered with
\* response 1 and its background fetch stores object 2; request 3, more
\* than 1s after that, is answered by its own fetch; three backend requests
C23_Witness ==
    /\ profile = TestSetBerespTtlToTinyValueAllowsForStaleWhileRevalidate
    /\ Len(reqs) = 3
    /\ \A i \in Idx : reqs[i].key = "/" /\ reqs[i].pc = "done"
    /\ reqs[2].seen.x = 1 /\ SeenAge(2) = 0
    /\ reqs[2].first = "grace" /\ reqs[2].resp = [status |-> StatusOK, x |-> 1]
    /\ reqs[2].fetch = "bg" /\ reqs[2].fstate = "done"
    /\ reqs[3].seen.x = 2 /\ SeenAge(3) >= 1
    /\ reqs[3].first = "miss" /\ reqs[3].fetch = "sync"
    /\ reqs[3].resp = [status |-> StatusOK, x |-> 3]
    /\ backendRequests = 3

\* request i for "/" is answered by its own backend fetch, which it blocked
\* on; it was not answered from the cache
OwnSyncFetch(i) ==
    /\ reqs[i].first \notin {"hit", "grace"}
    /\ reqs[i].fetch \in {"sync", "hitmiss"}
    /\ reqs[i].fstate = "done"
    /\ reqs[i].resp = reqs[i].beresp /\ reqs[i].resp.x = i
    /\ reqs[i].doneAt = reqs[i].fdone

\* C24: builtin vcl, default ttl 0 and a response with only
\* stale-while-revalidate=1: nothing is cached, not even for the grace of
\* 1s; the store holds no object that could be served, and every request
\* for the key is answered by its own synchronous backend fetch.
C24_SwrWithoutTtlNotCached ==
    profile = TestStaleWhileRevalidateWithoutTtlOrExpiresAndZeroDefaultTtl =>
        /\ store["/"] # NoObj => store["/"].uncacheable
        /\ \A i \in Idx :
              reqs[i].key = "/" =>
                  /\ reqs[i].first \notin {"hit", "grace"}
                  /\ reqs[i].fetch # "bg"
                  /\ reqs[i].pc = "done" => OwnSyncFetch(i)

\* the run of the test: the second request comes inside the grace of 1s
\* of the first response and is answered by its own fetch; two backend
\* requests
C24_Witness ==
    /\ profile = TestStaleWhileRevalidateWithoutTtlOrExpiresAndZeroDefaultTtl
    /\ Len(reqs) = 2
    /\ \A i \in Idx : reqs[i].key = "/" /\ reqs[i].pc = "done"
    /\ reqs[1].resp = [status |-> StatusOK, x |-> 1]
    /\ reqs[2].seen.x = 1 /\ SeenAge(2) = 0
    /\ reqs[2].resp = [status |-> StatusOK, x |-> 2]
    /\ backendRequests = 2

\* the response of profile p is private or no-cache and has no validator
PrivateOrNoCache(p) ==
    (p.cc.private \/ p.cc.noCache) /\ p.validator = "none"

VaryReq(i) == profile = TestVaryOnOrigin /\ reqs[i].key = "/"

\* the fetches for "/" that the requests with Origin v started
FetchesOf(v) ==
    {i \in Idx : VaryReq(i) /\ reqs[i].hdr.origin = v /\ reqs[i].fetch # "none"}

\* C26: an object is served to a request only if the request has, for
\* every header named in the object's Vary, the value recorded with the
\* object.  Against responses that vary on Origin (the vcl adds Origin to
\* Vary: Accept-Encoding) the requests with Origin https://a and those with
\* Origin https://b have their own variants: each variant is fetched once
\* and stored under its own cache key, and every request is answered with
\* the Access-Control-Allow-Origin of its own Origin.
C26_VariantsByOrigin ==
    /\ \A i \in Idx :
          /\ reqs[i].seen # NoObj =>
                Varied(reqs[i].seen.vary, reqs[i].hdr) = reqs[i].seen.varied
          /\ VaryReq(i) =>
                /\ reqs[i].seen # NoObj =>
                      /\ reqs[i].seen.vary = {"Accept-Encoding", "Origin"}
                      /\ reqs[i].seen.varied.origin = reqs[i].hdr.origin
                /\ reqs[i].pc = "done" => reqs[i].acao = reqs[i].hdr.origin
    /\ profile = TestVaryOnOrigin =>
          \A v \in {OriginA, OriginB} :
              /\ Cardinality(FetchesOf(v)) <= 1
              /\ store[CacheKey("/", v)] # NoObj =>
                    /\ store[CacheKey("/", v)].acao = v
                    /\ store[CacheKey("/", v)].varied.origin = v
                    /\ \E i \in FetchesOf(v) : store[CacheKey("/", v)].x = i

\* the run of the test and one more request: the request with Origin
\* https://a and the one with https://b are answered by their own fetches
\* (two backend requests), both variants are stored, and a second request
\* with https://a is answered from the first variant
C26_Witness ==
    /\ profile = TestVaryOnOrigin
    /\ Len(reqs) = 3
    /\ \A i \in Idx : reqs[i].key = "/" /\ reqs[i].pc = "done"
    /\ reqs[1].hdr.origin = OriginA /\ reqs[1].acao = OriginA
    /\ reqs[2].hdr.origin = OriginB /\ reqs[2].acao = OriginB
    /\ reqs[2].first = "miss" /\ reqs[2].fetch = "sync"
    /\ reqs[3].hdr.origin = OriginA /\ reqs[3].first = "hit"
    /\ reqs[3].acao = OriginA /\ reqs[3].resp.x = 1
    /\ store[CacheKey("/", OriginA)].x = 1
    /\ store[CacheKey("/", OriginB)].x = 2
    /\ backendRequests = 2

\* request i for "/" under the vcl that reports Cache-Status was answered
CacheStatusReq(i) ==
    /\ profile = TestRfc9211CacheStatusImplementation
    /\ reqs[i].key = "/"
    /\ reqs[i].pc = "done"

\* the Cache-Status values that report a hit, a miss, a pass
HitStatus == {"my-cache; hit"}

MissStatus == {"my-cache; fwd=miss"}

PassStatus ==
    {"my-cache; fwd=method; detail=POST", "my-cache; fwd=method; detail=PUT",
     "my-cache; fwd=bypass; detail=AUTHORIZATION",
     "my-cache; fwd=bypass; detail=COOKIE", "my-cache; fwd=bypass; detail=OTHER"}

\* C27: every delivered response is reported as exactly one of hit, miss
\* and pass: hit when it was answered from the cache, miss when it was
\* answered by a fetch for the cache, pass when it bypassed the cache.  On
\* pass the reason is the method when the method is neither GET nor HEAD,
\* else Authorization when the request has one, else Cookie when it has
\* one, else other.  A GET without credentials that finds nothing is a miss,
\* one that finds the object inside its ttl is a hit.
C27_CacheStatus ==
    \A i \in Idx :
        CacheStatusReq(i) =>
            LET h == reqs[i].hdr
                cs == reqs[i].cacheStatus
                plain == h.method = "GET" /\ h.authorization = 0 /\ h.cookie = 0
            IN
            /\ cs \in HitStatus \cup MissStatus \cup PassStatus
            /\ cs \in HitStatus <=> reqs[i].fetch = "none"
            /\ cs \in MissStatus <=> reqs[i].fetch \in {"sync", "hitmiss"}
            /\ cs \in PassStatus <=> reqs[i].fetch = "pass"
            /\ reqs[i].fetch = "pass" <=> ~plain
            /\ h.method = "POST" => cs = "my-cache; fwd=method; detail=POST"
            /\ h.method = "PUT" => cs = "my-cache; fwd=method; detail=PUT"
            /\ h.method = "GET" /\ h.authorization # 0 =>
                  cs = "my-cache; fwd=bypass; detail=AUTHORIZATION"
            /\ h.method = "GET" /\ h.authorization = 0 /\ h.cookie # 0 =>
                  cs = "my-cache; fwd=bypass; detail=COOKIE"
            /\ plain /\ reqs[i].seen = NoObj /\ reqs[i].sub = 0 =>
                  cs = "my-cache; fwd=miss"
            /\ plain /\ reqs[i].seen # NoObj
                  /\ SeenAge(i) < profile.DefaultTtl =>
                  cs = "my-cache; hit" /\ reqs[i].resp = respOf(reqs[i].seen)

\* a request with Authorization and Cookie is reported as
\* fwd=bypass; detail=AUTHORIZATION, a plain GET after it as fwd=miss and
\* the next plain GET, inside the ttl, as hit
C27_Witness ==
    /\ profile = TestRfc9211CacheStatusImplementation
    /\ Len(reqs) = 3
    /\ \A i \in Idx : reqs[i].key = "/" /\ reqs[i].pc = "done"
    /\ reqs[1].hdr.authorization # 0 /\ reqs[1].hdr.cookie # 0
    /\ reqs[1].cacheStatus = "my-cache; fwd=bypass; detail=AUTHORIZATION"
    /\ reqs[2].hdr = GetHdr /\ reqs[2].cacheStatus = "my-cache; fwd=miss"
    /\ reqs[3].hdr = GetHdr /\ reqs[3].cacheStatus = "my-cache; hit"
    /\ reqs[3].resp = [status |-> StatusOK, x |-> 2]
    /\ backendRequests = 2

\* request i for "/" against the backend of the range test
RangeReq(i) ==
    /\ profile = TestRangeRequestIsAlwaysNonRangedForBackend
    /\ reqs[i].key = "/"

\* C28: the Range of a client request never reaches the backend: every
\* backend request is without Range, the object that is stored has the full
\* body, and a request with Range that finds the object is answered from
\* the cache without a backend fetch.
C28_RangeNotForwarded ==
    \A i \in Idx :
        RangeReq(i) =>
            /\ reqs[i].bereq.range = ""
            /\ reqs[i].fstate = "done" =>
                  /\ store["/"].body = "foo"
                  /\ ~store["/"].uncacheable
            /\ reqs[i].hdr.range # "" /\ reqs[i].seen # NoObj =>
                  /\ reqs[i].seen.body = "foo"
                  /\ reqs[i].first = "hit"
                  /\ reqs[i].fetch = "none"
                  /\ ServedFromCache(i)

\* the run of the test: the first request, without Range, is answered by a
\* fetch; the second, with Range, is answered with the first response; one
\* backend request.  A third request with Range changes nothing.
C28_Witness ==
    /\ profile = TestRangeRequestIsAlwaysNonRangedForBackend
    /\ Len(reqs) = 3
    /\ \A i \in Idx : reqs[i].key = "/" /\ reqs[i].pc = "done"
    /\ reqs[1].hdr.range = "" /\ reqs[1].fetch = "sync"
    /\ \A i \in {2, 3} :
          /\ reqs[i].hdr.range = "bytes=0.."
          /\ reqs[i].fetch = "none"
          /\ reqs[i].resp = [status |-> StatusOK, x |-> 1]
    /\ backendRequests = 1

\* request i for "/" under the vcl that marks hit and miss was answered
XCacheReq(i) ==
    /\ profile = TestSetXCacheResponseHeaderOnHitOrMiss
    /\ reqs[i].key = "/"
    /\ reqs[i].pc = "done"

\* C30: vcl_hit runs for a request that finds the object fresh and for one
\* that finds it stale within grace and is served the stale object: both
\* are reported as hit.  vcl_miss runs for a request that finds nothing
\* and for one that comes after ttl plus grace of the stored object (the
\* one the last background fetch stored) have elapsed: both are answered
\* by a fetch and reported as miss.  The response carries the mark the
\* request got in vcl_hit or vcl_miss.
C30_HitMissMarks ==
    \A i \in Idx :
        XCacheReq(i) =>
            LET o == reqs[i].seen IN
            /\ reqs[i].xCache = reqs[i].mark
            /\ reqs[i].xCache \in {"hit", "miss"}
            /\ reqs[i].xCache = "hit" <=> reqs[i].fetch \in {"none", "bg"}
            /\ reqs[i].xCache = "miss" <=> reqs[i].fetch = "sync"
            /\ o # NoObj /\ SeenAge(i) < o.ttl =>
                  reqs[i].first = "hit" /\ reqs[i].xCache = "hit"
            /\ o # NoObj /\ SeenAge(i) >= o.ttl /\ SeenAge(i) < o.ttl + o.grace =>
                  /\ reqs[i].first = "grace" /\ reqs[i].xCache = "hit"
                  /\ reqs[i].resp = respOf(o)
            /\ (o = NoObj \/ SeenAge(i) >= o.ttl + o.grace) /\ reqs[i].sub = 0 =>
                  /\ reqs[i].first = "miss" /\ reqs[i].xCache = "miss"
                  /\ reqs[i].resp.x = i

\* the run of the test without its second request: a miss, a hit on the
\* stale object within grace whose background fetch stores object 2, and,
\* more than ttl plus grace after that, a miss
C30_Witness ==
    /\ profile = TestSetXCacheResponseHeaderOnHitOrMiss
    /\ Len(reqs) = 3
    /\ \A i \in Idx : reqs[i].key = "/" /\ reqs[i].pc = "done"
    /\ reqs[1].xCache = "miss" /\ reqs[1].resp.x = 1
    /\ reqs[2].first = "grace" /\ reqs[2].xCache = "hit" /\ reqs[2].resp.x = 1
    /\ reqs[2].fetch = "bg" /\ reqs[2].fstate = "done"
    /\ reqs[3].seen.x = 2 /\ SeenAge(3) >= 2
    /\ reqs[3].xCache = "miss" /\ reqs[3].resp.x = 3

\* request i for "/" found an object or a hit-for-miss marker
TtlSourceReq(i) == reqs[i].key = "/" /\ reqs[i].seen # NoObj

\* a field of VarnishConfig as the claim reads it: empty counts as 0s
Configured(s) == IF s = "" THEN 0 ELSE Seconds(s)

\* C29: the ttl of a new object is s-maxage when the response has it, else
\* max-age, else Expires minus Date, else the configured default ttl, and 0
\* when none of them is there; an empty DefaultTtl, DefaultGrace or
\* DefaultKeep counts as 0s.  With a ttl of 0 the response is stored as a
\* hit-for-miss marker only; otherwise the object has that ttl and the
\* configured grace and keep, a request younger than the ttl is a hit and
\* one older than ttl plus grace is not served the object.
C29_TtlSource ==
    \A config \in Configs :
        profile = TtlSetUp(config, profile.cc) =>
        \A i \in Idx :
        TtlSourceReq(i) =>
            LET o == reqs[i].seen
                cc == profile.cc
                ttl == IF cc.sMaxAge # -1 THEN cc.sMaxAge
                       ELSE IF cc.maxAge # -1 THEN cc.maxAge
                       ELSE IF cc.expires # -1 THEN cc.expires
                       ELSE Configured(config.DefaultTtl)
                grace == Configured(config.DefaultGrace)
            IN
            /\ o.uncacheable <=> ttl = 0
            /\ o.uncacheable => reqs[i].first = "hitmiss"
            /\ ~o.uncacheable =>
                  /\ o.ttl = ttl
                  /\ o.grace = grace
                  /\ o.keep = Configured(config.DefaultKeep)
                  /\ SeenAge(i) < ttl =>
                        reqs[i].first = "hit" /\ ServedFromCache(i)
                  /\ SeenAge(i) >= ttl /\ SeenAge(i) < ttl + grace =>
                        reqs[i].first = "grace"
                  /\ SeenAge(i) >= ttl + grace =>
                        reqs[i].first = "miss" /\ BlocksOnFetch(i)

\* with an empty VarnishConfig and a response with s-maxage=1, max-age=2
\* and Expires one second after Date, the second request, in the first
\* second, is a hit and the third, in the second second, is a miss
C29_Witness ==
    /\ profile = TtlSetUp(EmptyConfig,
                          [NoCC EXCEPT !.sMaxAge = 1, !.maxAge = 2, !.expires = 1])
    /\ Len(reqs) = 3
    /\ \A i \in Idx : reqs[i].key = "/" /\ reqs[i].pc = "done"
    /\ reqs[2].seen.x = 1 /\ reqs[2].seen.ttl = 1 /\ SeenAge(2) = 0
    /\ reqs[2].first = "hit" /\ reqs[2].resp = [status |-> StatusOK, x |-> 1]
    /\ reqs[3].seen.x = 1 /\ SeenAge(3) = 1
    /\ reqs[3].first = "miss" /\ reqs[3].resp = [status |-> StatusOK, x |-> 3]
    /\ backendRequests = 2

\* request i for "/" of the set-up with the Etag found the object inside
\* its ttl
FreshEtagReq(i) ==
    /\ profile = TestClientConditionalRequestWithEtag
    /\ reqs[i].key = "/"
    /\ reqs[i].seen # NoObj
    /\ SeenAge(i) < reqs[i].seen.ttl

\* C31: a request with If-None-Match equal to the Etag of the object it
\* finds fresh is answered at once from the cache with 304, the X-Response
\* of the cached response and no body, without a backend fetch; a request
\* without If-None-Match, or with another value, gets the cached 200 with
\* its body.
C31_ClientConditionalHit ==
    \A i \in Idx :
        FreshEtagReq(i) =>
            LET o == reqs[i].seen IN
            /\ reqs[i].first = "hit"
            /\ reqs[i].fetch = "none"
            /\ reqs[i].pc = "done" /\ reqs[i].doneAt = reqs[i].arrived
            /\ reqs[i].resp.x = o.x
            /\ reqs[i].hdr.ifNoneMatch = o.etag =>
                  /\ reqs[i].resp.status = StatusNotModified
                  /\ reqs[i].body = ""
            /\ reqs[i].hdr.ifNoneMatch # o.etag =>
                  /\ reqs[i].resp.status = StatusOK
                  /\ reqs[i].body = "foo"

\* the run of the test: the first request is answered 200 with "foo" by a
\* fetch, the second, with If-None-Match: 12345, is answered 304 with the
\* first X-Response and no body; one backend request
C31_Witness ==
    /\ profile = TestClientConditionalRequestWithEtag
    /\ Len(reqs) = 2
    /\ \A i \in Idx : reqs[i].key = "/" /\ reqs[i].pc = "done"
    /\ reqs[1].hdr = GetHdr
    /\ reqs[1].resp = [status |-> StatusOK, x |-> 1] /\ reqs[1].body = "foo"
    /\ reqs[2].hdr.ifNoneMatch = "12345" /\ SeenAge(2) = 0
    /\ reqs[2].resp = [status |-> StatusNotModified, x |-> 1]
    /\ reqs[2].body = ""
    /\ reqs[2].fetch = "none"
    /\ backendRequests = 1

\* request i for "/" of the set-up whose client sends Cache-Control found
\* the object inside its ttl
FreshNoCacheReq(i) ==
    /\ profile = TestMaxAge0AndNoCacheInRequest
    /\ reqs[i].key = "/"
    /\ reqs[i].seen # NoObj
    /\ SeenAge(i) < reqs[i].seen.ttl

\* C32: a request that finds the object inside its ttl is a hit, answered
\* at once with the cached response and without a backend fetch, also when
\* it carries Cache-Control: max-age=0, no-cache.
C32_ClientCannotForceRevalidation ==
    \A i \in Idx :
        FreshNoCacheReq(i) =>
            /\ reqs[i].first = "hit"
            /\ reqs[i].fetch = "none"
            /\ ServedFromCache(i)

\* the run of the test: the second request carries Cache-Control:
\* max-age=0, no-cache and is answered with the first response; one backend
\* request
C32_Witness ==
    /\ profile = TestMaxAge0AndNoCacheInRequest
    /\ Len(reqs) = 2
    /\ \A i \in Idx : reqs[i].key = "/" /\ reqs[i].pc = "done"
    /\ reqs[1].hdr = GetHdr /\ reqs[1].resp = [status |-> StatusOK, x |-> 1]
    /\ reqs[2].hdr.cacheControl = "max-age=0, no-cache" /\ SeenAge(2) = 0
    /\ reqs[2].resp = [status |-> StatusOK, x |-> 1]
    /\ reqs[2].fetch = "none"
    /\ backendRequests = 1

\* request i for "/" of a set-up with a validator and a keep time found
\* the object past ttl and grace and still kept
KeepReq(i) ==
    /\ profile \in {TestConditionalRequestWhenRevalidatingWithEtag,
                    TestConditionalRequestWhenRevalidatingWithLastModified}
    /\ reqs[i].key = "/"
    /\ InKeepOfSeen(i)

\* C33: an object past ttl and grace that is still kept is never served to
\* a client: the request is a miss that blocks on a fetch (its own, which
\* is synchronous and carries the validators of the kept object, or the
\* in-flight one it waits for) and is never answered with the response the
\* kept object was stored with.  The client of the fetch gets the outcome
\* of the fetch: on 304 the revalidated object (status and body of the kept
\* object, X-Response of the 304), else the new response.
C33_KeptObjectNotServed ==
    \A i \in Idx :
        KeepReq(i) =>
            LET o == reqs[i].seen IN
            /\ reqs[i].first = "miss"
            /\ reqs[i].fetch # "bg"
            /\ reqs[i].fetch = "none" => reqs[i].waited
            /\ reqs[i].pc = "done" =>
                  /\ reqs[i].resp # respOf(o)
                  /\ reqs[i].resp.x # o.x
                  /\ reqs[i].fetch # "none" => reqs[i].doneAt = reqs[i].fdone
            /\ reqs[i].sub = 0 =>
                  /\ reqs[i].fetch = "sync"
                  /\ reqs[i].stale = o
                  /\ reqs[i].cond = ValidatorsOf(o) /\ reqs[i].cond # NoCond
            /\ reqs[i].sub = 0 /\ reqs[i].pc = "done" =>
                  /\ reqs[i].resp.x = i
                  /\ reqs[i].beresp.status = StatusNotModified =>
                        /\ reqs[i].resp.status = o.status
                        /\ reqs[i].body = o.body
                  /\ reqs[i].beresp.status # StatusNotModified =>
                        /\ reqs[i].resp = reqs[i].beresp
                        /\ reqs[i].body =
                              HandlerBody(profile, reqs[i].key, reqs[i].tmp)

\* the second request finds object 1 kept and gets the revalidated object
\* (200 "foo" with X-Response 2) of its conditional fetch, the third finds
\* object 2 kept and gets the new 200 without body of its conditional fetch
C33_Witness ==
    /\ profile = TestConditionalRequestWhenRevalidatingWithEtag
    /\ Len(reqs) = 3
    /\ \A i \in Idx : reqs[i].key = "/" /\ reqs[i].pc = "done"
    /\ InKeepOfSeen(2) /\ reqs[2].seen.x = 1
    /\ reqs[2].beresp.status = StatusNotModified
    /\ reqs[2].resp = [status |-> StatusOK, x |-> 2] /\ reqs[2].body = "foo"
    /\ InKeepOfSeen(3) /\ reqs[3].seen.x = 2
    /\ reqs[3].cond # NoCond /\ reqs[3].beresp.status = StatusOK
    /\ reqs[3].resp = [status |-> StatusOK, x |-> 3] /\ reqs[3].body = ""
    /\ backendRequests = 3


(* ------------------------------- C34 ----------------------------------- *)

\* request i looked the key up (no pass) and found a stored cacheable object
FoundReq(i) ==
    /\ profile \in { TestConditionalRequestWhenRevalidatingWithEtag,
                     TestNoCachingOf500ErrorInGracePeriodAfter200Request }
    /\ reqs[i].first # "pass"
    /\ reqs[i].seen # NoObj /\ ~reqs[i].seen.uncacheable

\* the lookup of request i returned the object it found: it was delivered
\* (fresh or within grace) or its validators went into the fetch
ReturnedByLookup(i) ==
    \/ reqs[i].first \in {"hit", "grace"}
    \/ reqs[i].sub = 0 /\ reqs[i].cond # NoCond

\* where the lookup of request i put the object, by what the request did
LookupWindows(i) ==
    LET o == reqs[i].seen
        a == SeenAge(i)
    IN /\ a < o.ttl => reqs[i].first = "hit" /\ reqs[i].fetch = "none"
       /\ o.ttl <= a /\ a < o.ttl + o.grace => reqs[i].first = "grace"
       /\ o.ttl + o.grace <= a /\ a < o.ttl + o.grace + o.keep =>
             /\ reqs[i].first = "miss"
             /\ reqs[i].sub = 0 => /\ reqs[i].fetch = "sync"
                                   /\ reqs[i].stale = o
                                   /\ reqs[i].cond = ValidatorsOf(o)
       /\ o.ttl + o.grace + o.keep <= a =>
             /\ reqs[i].first = "miss"
             /\ reqs[i].sub = 0 => /\ reqs[i].fetch = "sync"
                                   /\ reqs[i].cond = NoCond

C34_Windows ==
    \A i \in Idx :
       FoundReq(i) =>
          /\ LookupWindows(i)
          /\ ReturnedByLookup(i) =>
                SeenAge(i) < reqs[i].seen.ttl + reqs[i].seen.grace + reqs[i].seen.keep

\* a step that changes the store and nothing else is a sweep; after it no
\* object past its retention window is stored, the others are untouched
C34_SweepStep ==
    store' # store /\ UNCHANGED <<now, reqs, inflight, backendRequests, docker>> =>
       \A c \in CacheKeys :
          /\ store'[c] # NoObj => ~PastRetention(store'[c], now')
          /\ ~PastRetention(store[c], now) => store'[c] = store[c]

\* C34: a request that finds a stored object gets it as fresh when its age
\* is below ttl, as stale within grace for ttl <= age < ttl + grace, as
\* stale within keep (only its validators are used, by a synchronous fetch)
\* for ttl + grace <= age < ttl + grace + keep, and misses afterwards; the
\* object a lookup returns is never older than ttl + grace + keep; and the
\* sweep removes every object past ttl + grace + keep and no other.
C34_Retention == [](C34_Windows) /\ [][C34_SweepStep]_vars

\* a sweep has emptied the store of the etag set-up after one request was
\* served within keep (conditional fetch) and a later one found the object
\* past its retention window and fetched without condition
C34_Witness ==
    /\ profile = TestConditionalRequestWhenRevalidatingWithEtag
    /\ Len(reqs) = 3
    /\ InKeepOfSeen(2) /\ reqs[2].cond # NoCond
    /\ FoundReq(3) /\ PastRetention(reqs[3].seen, reqs[3].arrived)
    /\ reqs[3].first = "miss" /\ reqs[3].cond = NoCond
    /\ \A c \in CacheKeys : store[c] = NoObj


(* ------------------------------- C36 ----------------------------------- *)

\* the synchronous fetch of request i, under the Vcl that abandons every
\* 5xx response, got a 500 from the backend
SyncAbandonReq(i) ==
    /\ profile = Abandon5xxOfEveryFetch
    /\ reqs[i].key = "/"
    /\ reqs[i].fetch = "sync"
    /\ Completed(i)
    /\ reqs[i].beresp.status = StatusInternalServerError

\* C36: a synchronous fetch whose response is abandoned answers its client
\* with the backend-error response, at the moment the fetch ends: the
\* synthetic 503 with the body of vcl_backend_error; the abandoned response
\* is not inserted and its fetch is no longer registered as in flight.
C36_SyncAbandonAnswers503 ==
    \A i \in Idx :
       SyncAbandonReq(i) =>
          /\ reqs[i].pc = "done"
          /\ reqs[i].resp = ErrorResp
          /\ reqs[i].body = VclBackendError(profile)
          /\ reqs[i].doneAt = reqs[i].fdone
          /\ i \notin inflight
          /\ \A c \in CacheKeys : store[c] = NoObj \/ store[c].x # i

\* request 1 stored a 200; request 2, after ttl and grace, fetched
\* synchronously, got a 500 that was abandoned and was answered 503; the
\* object of request 1 is still the stored one
C36_Witness ==
    /\ Len(reqs) >= 2
    /\ SyncAbandonReq(2)
    /\ reqs[2].seen # NoObj /\ reqs[2].seen.x = 1
    /\ reqs[2].resp.status = StatusServiceUnavailable
    /\ \E c \in CacheKeys : store[c] # NoObj /\ store[c].x = 1


(* ------------------------------- C37 ----------------------------------- *)

\* object o of URL "/" is as the fetch of the request that X-Response
\* names inserted it, in the set-up of TestNoCacheControl: inserted when
\* that fetch ended, with the default ttl, grace and keep, and the status
\* and body that fetch delivered
AsInserted(o) ==
    /\ o.x \in Idx
    /\ reqs[o.x].fstate = "done"
    /\ o.insertedAt = reqs[o.x].fdone
    /\ o.ttl = profile.DefaultTtl
    /\ o.grace = profile.DefaultGrace
    /\ o.keep = profile.DefaultKeep
    /\ respOf(o) = reqs[o.x].beresp
    /\ o.body = reqs[o.x].body
    /\ o.etag = "" /\ o.lastModified = "" /\ o.vary = {} /\ o.acao = ""

\* request i for "/" was answered from cache
HitReq(i) ==
    /\ profile = TestNoCacheControl
    /\ reqs[i].key = "/"
    /\ reqs[i].first = "hit"

\* C37: in the set-up of TestNoCacheControl (default ttl 1s) the stored
\* object of "/" (a cached response, no hit-for-miss marker) is at all times as its fetch inserted it, whatever hits
\* it served; a request is a hit only within the ttl counted from the end
\* of that fetch and gets the response of that fetch, and a request that
\* finds the object a ttl or more after the end of that fetch is no hit.
C37_HitLeavesObject ==
    profile = TestNoCacheControl =>
       /\ \A c \in Variants("/") :
             store[c] # NoObj /\ ~store[c].uncacheable => AsInserted(store[c])
       /\ \A i \in Idx :
             /\ HitReq(i) =>
                   /\ AsInserted(reqs[i].seen)
                   /\ reqs[i].arrived - reqs[reqs[i].seen.x].fdone < profile.DefaultTtl
                   /\ reqs[i].resp = reqs[reqs[i].seen.x].beresp
                   /\ reqs[i].fetch = "none"
             /\ /\ reqs[i].key = "/"
                /\ reqs[i].seen # NoObj /\ ~reqs[i].seen.uncacheable
                /\ reqs[i].arrived - reqs[reqs[i].seen.x].fdone >= profile.DefaultTtl
                => reqs[i].first = "miss"

\* the test: request 1 is fetched, request 2 is a hit within the ttl,
\* request 3, after the ttl, finds the object of request 1 and misses; two
\* backend requests
C37_Witness ==
    /\ profile = TestNoCacheControl
    /\ Len(reqs) = 3
    /\ reqs[1].first = "miss" /\ reqs[1].fstate = "done"
    /\ HitReq(2) /\ reqs[2].seen.x = 1 /\ reqs[2].resp.x = 1
    /\ reqs[3].seen # NoObj /\ reqs[3].seen.x = 1
    /\ reqs[3].first = "miss" /\ reqs[3].pc = "done" /\ reqs[3].resp.x = 3
    /\ backendRequests = 2


(* ------------------------------- C38 ----------------------------------- *)

\* the client requests received for "/" (the handler of the test counts
\* the backend requests for it)
Received == {i \in Idx : reqs[i].key = "/"}

\* the requests for "/" on whose behalf a backend fetch was started
Fetched == {i \in Received : reqs[i].fetch # "none"}

\* the fetches for "/" that reached the handler and were counted by it
Counted == {i \in Fetched : reqs[i].fstate \in {"counted", "done", "abandoned", "failed"}}

AllHandled ==
    /\ profile = TestHitForMissAndNoRequestCoalescingWhenNoStore
    /\ Cardinality(Received) = MaxReq
    /\ \A i \in Received : reqs[i].pc = "done" /\ reqs[i].fstate = "done"

\* C39: when all N requests of the hit-for-miss test are answered, the
\* counter of the handler is N: no backendRequests++ of the handlers that
\* ran in parallel is lost.
C39_NoIncrementLost ==
    AllHandled => backendRequests = Cardinality(Received)


(* ------------------------------- C40 ----------------------------------- *)

\* C40: a call of StartVarnishInDocker that returned an error has left no
\* container of its own running; a call that returned without error
\* returned a function that stops the container the call created, and after
\* that function ran (ContainerStop without error) that container has
\* exited; no container has exited but by the function of the call that
\* created it.
C40_NoContainerLeftRunning ==
    /\ \A c \in Callers :
          LET k == docker.calls[c]
          IN /\ k.ret = "err" /\ k.id # 0 => docker.containers[k.id] # "running"
             /\ k.ret = "ok" => k.id # 0 /\ k.stop = k.id
             /\ k.pc = "stopped" /\ ~k.stopErr => docker.containers[k.id] = "exited"
    /\ \A id \in ContainerIds :
          docker.containers[id] = "exited" =>
             \E c \in Callers : docker.calls[c].id = id /\ docker.calls[c].pc = "stopped"

====
